---- MODULE Spec2Model ----
(***************************************************************************)
(* A model of larakit's corpus I/O layer: the language-tag parser, the     *)
(* line-per-record corpus with its footer (JTM) and the streaming reader   *)
(* of the XML translation-memory corpus (TMX).                             *)
(*                                                                         *)
(* Conventions.  A Python str is a sequence of one-character strings.  An  *)
(* Optional value is a sequence of length 0 (None) or 1 (the value).       *)
(***************************************************************************)
EXTENDS Integers, Sequences, FiniteSets, TLC

None == << >>
Some(x) == << x >>
IsNone(o) == Len(o) = 0
Get(o) == o[1]

(***************************************************************************)
(* Strings                                                                 *)
(***************************************************************************)
LowerLetters == << "a", "b", "c", "d", "e", "f", "g", "h", "i", "j", "k", "l", "m",
                   "n", "o", "p", "q", "r", "s", "t", "u", "v", "w", "x", "y", "z" >>
UpperLetters == << "A", "B", "C", "D", "E", "F", "G", "H", "I", "J", "K", "L", "M",
                   "N", "O", "P", "Q", "R", "S", "T", "U", "V", "W", "X", "Y", "Z" >>
Digits == { "0", "1", "2", "3", "4", "5", "6", "7", "8", "9" }

IsLowerChar(c) == \E i \in 1..26 : LowerLetters[i] = c
IsUpperChar(c) == \E i \in 1..26 : UpperLetters[i] = c
LowerChar(c) == IF IsUpperChar(c) THEN LowerLetters[CHOOSE i \in 1..26 : UpperLetters[i] = c] ELSE c
UpperChar(c) == IF IsLowerChar(c) THEN UpperLetters[CHOOSE i \in 1..26 : LowerLetters[i] = c] ELSE c

\* str.lower() and str.upper()
lower(s) == [i \in 1..Len(s) |-> LowerChar(s[i])]
upper(s) == [i \in 1..Len(s) |-> UpperChar(s[i])]

\* str.startswith(p)
startswith(s, p) == Len(p) <= Len(s) /\ SubSeq(s, 1, Len(p)) = p

\* str.replace(a, b) for one-character a and b
replace(s, a, b) == [i \in 1..Len(s) |-> IF s[i] = a THEN b ELSE s[i]]

\* str.split(sep) for a one-character sep: always at least one chunk
RECURSIVE split(_, _)
split(s, sep) ==
    IF \A i \in 1..Len(s) : s[i] # sep
    THEN << s >>
    ELSE LET k == CHOOSE i \in 1..Len(s) : s[i] = sep /\ \A j \in 1..(i - 1) : s[j] # sep
         IN << SubSeq(s, 1, k - 1) >> \o split(SubSeq(s, k + 1, Len(s)), sep)

\* sep.join(parts)
RECURSIVE join(_, _)
join(parts, sep) ==
    IF Len(parts) = 0 THEN << >>
    ELSE IF Len(parts) = 1 THEN parts[1]
    ELSE parts[1] \o << sep >> \o join(Tail(parts), sep)

\* str.strip(): leading and trailing whitespace removed
IsSpace(c) == c \in { " ", "\n", "\t", "\r", "\f" }
RECURSIVE lstrip(_)
lstrip(s) == IF Len(s) > 0 /\ IsSpace(s[1]) THEN lstrip(Tail(s)) ELSE s
RECURSIVE rstrip(_)
rstrip(s) == IF Len(s) > 0 /\ IsSpace(s[Len(s)]) THEN rstrip(SubSeq(s, 1, Len(s) - 1)) ELSE s
strip(s) == rstrip(lstrip(s))

(***************************************************************************)
(* Language: the language-tag parser and the generality relation           *)
(***************************************************************************)
_is_alpha(string) == \A i \in 1..Len(string) : IsLowerChar(string[i]) \/ IsUpperChar(string[i])
_is_digit(string) == \A i \in 1..Len(string) : string[i] \in Digits
\* a parser that leaves the case of a script subtag as it is written
_keep_case(string) == string

_to_title_case(string) == << UpperChar(string[1]) >> \o lower(Tail(string))

\* a parser that knows two-letter codes only
_parse_language_two(string) ==
    IF Len(string) = 2 /\ _is_alpha(string) THEN Some(lower(string)) ELSE None

_parse_language(string) ==
    IF (Len(string) = 2 \/ Len(string) = 3) /\ _is_alpha(string) THEN Some(lower(string)) ELSE None

_parse_script(string) ==
    IF Len(string) = 4 /\ _is_alpha(string) THEN Some(_to_title_case(string)) ELSE None

_parse_region(string) ==
    IF Len(string) = 2 /\ _is_alpha(string) THEN Some(upper(string))
    ELSE IF Len(string) = 3 /\ _is_digit(string) THEN Some(string)
    ELSE None

\* The loop of from_string over chunks[i..], i >= 2 (Python index i - 1 >= 1),
\* carrying script, region, skip and tag_parts.
RECURSIVE ParseChunks(_, _, _, _, _, _)
ParseChunks(chunks, i, script, region, skip, tag_parts) ==
    IF i > Len(chunks)
    THEN [script |-> script, region |-> region, tag_parts |-> tag_parts]
    ELSE LET chunk == chunks[i]
             asScript == IF ~skip /\ i - 1 = 1 /\ IsNone(script) THEN _parse_script(chunk) ELSE None
             asRegion == IF ~skip /\ IsNone(asScript) /\ i - 1 <= 2 /\ IsNone(region)
                         THEN _parse_region(chunk) ELSE None
         IN IF ~IsNone(asScript)
            THEN ParseChunks(chunks, i + 1, asScript, region, skip, Append(tag_parts, Get(asScript)))
            ELSE IF ~IsNone(asRegion)
            THEN ParseChunks(chunks, i + 1, script, asRegion, skip, Append(tag_parts, Get(asRegion)))
            ELSE ParseChunks(chunks, i + 1, script, region, TRUE, Append(tag_parts, chunk))

\* Language.from_string on an Optional string: None when it raises ValueError,
\* else the Language (code, tag, region, script).
from_string(string) ==
    IF IsNone(string) \/ Len(Get(string)) = 0 THEN None
    ELSE LET chunks == split(replace(Get(string), "_", "-"), "-")
             code == _parse_language(chunks[1])
         IN IF IsNone(code) THEN None
            ELSE LET r == ParseChunks(chunks, 2, None, None, FALSE, << Get(code) >>)
                 IN Some([code |-> Get(code), tag |-> join(r.tag_parts, "-"),
                          region |-> r.region, script |-> r.script])

\* a test that looks at the recognized subtags only
is_language_only_by_subtags(self) == IsNone(self.script) /\ IsNone(self.region)

\* Language.is_language_only
is_language_only(self) == self.code = self.tag

\* Language.__eq__: by tag alone
LanguageEq(a, b) == a.tag = b.tag

\* Language.__hash__: hash(self.tag), which the tag stands for here
LanguageHash(a) == a.tag

\* Language.is_equal_or_more_generic_than
is_equal_or_more_generic_than(self, other) ==
    /\ self.code = other.code
    /\ ~(~IsNone(self.script) /\ self.script # other.script)
    /\ ~(~IsNone(self.region) /\ self.region # other.region)

(***************************************************************************)
(* JSON text: json.dumps(..., ensure_ascii=False, separators=(',', ':'))   *)
(* and json.loads, on the values the corpus layer exchanges.  A value is   *)
(* a str [t |-> "s"], an int [t |-> "n"], a list [t |-> "a"] or a dict     *)
(* [t |-> "o"] holding its (key, value) pairs in insertion order.          *)
(***************************************************************************)
JStr(s) == [t |-> "s", v |-> s]
JInt(n) == [t |-> "n", v |-> n]
JList(xs) == [t |-> "a", v |-> xs]
JDict(kvs) == [t |-> "o", v |-> kvs]
JErr == [t |-> "err", v |-> << >>]

Quote == "\""
Backslash == "\\"

\* one character of a str inside a JSON string literal
EscapeChar(c) ==
    IF c = Quote THEN << Backslash, Quote >>
    ELSE IF c = Backslash THEN << Backslash, Backslash >>
    ELSE IF c = "\n" THEN << Backslash, "n" >>
    ELSE IF c = "\r" THEN << Backslash, "r" >>
    ELSE IF c = "\t" THEN << Backslash, "t" >>
    ELSE << c >>

RECURSIVE EscapeChars(_)
EscapeChars(s) == IF Len(s) = 0 THEN << >> ELSE EscapeChar(s[1]) \o EscapeChars(Tail(s))

DigitChars == << "0", "1", "2", "3", "4", "5", "6", "7", "8", "9" >>
RECURSIVE IntChars(_)
IntChars(n) == IF n < 10 THEN << DigitChars[n + 1] >> ELSE IntChars(n \div 10) \o << DigitChars[(n % 10) + 1] >>

RECURSIVE dumps(_)
RECURSIVE DumpItems(_)
RECURSIVE DumpMembers(_)
dumps(x) ==
    IF x.t = "s" THEN << Quote >> \o EscapeChars(x.v) \o << Quote >>
    ELSE IF x.t = "n" THEN IntChars(x.v)
    ELSE IF x.t = "a" THEN << "[" >> \o DumpItems(x.v) \o << "]" >>
    ELSE << "{" >> \o DumpMembers(x.v) \o << "}" >>
DumpItems(xs) ==
    IF Len(xs) = 0 THEN << >>
    ELSE dumps(xs[1]) \o (IF Len(xs) > 1 THEN << "," >> ELSE << >>) \o DumpItems(Tail(xs))
DumpMembers(kvs) ==
    IF Len(kvs) = 0 THEN << >>
    ELSE dumps(JStr(kvs[1][1])) \o << ":" >> \o dumps(kvs[1][2])
         \o (IF Len(kvs) > 1 THEN << "," >> ELSE << >>) \o DumpMembers(Tail(kvs))

\* json.loads: a recursive-descent parse of s from position i; the result is
\* [ok, v, i] with i the position after the value.
PFail == [ok |-> FALSE, v |-> JErr, i |-> 0]
POk(v, i) == [ok |-> TRUE, v |-> v, i |-> i]

RECURSIVE SkipWs(_, _)
SkipWs(s, i) == IF i <= Len(s) /\ s[i] \in { " ", "\n", "\r", "\t" } THEN SkipWs(s, i + 1) ELSE i

UnescapeChar(c) ==
    IF c = "n" THEN Some("\n")
    ELSE IF c = "r" THEN Some("\r")
    ELSE IF c = "t" THEN Some("\t")
    ELSE IF c = Quote \/ c = Backslash \/ c = "/" THEN Some(c)
    ELSE None

\* the characters of a string literal after its opening quote
RECURSIVE ScanString(_, _, _)
ScanString(s, i, acc) ==
    IF i > Len(s) THEN PFail
    ELSE IF s[i] = Quote THEN POk(JStr(acc), i + 1)
    ELSE IF s[i] = Backslash
    THEN IF i + 1 > Len(s) \/ IsNone(UnescapeChar(s[i + 1])) THEN PFail
         ELSE ScanString(s, i + 2, Append(acc, Get(UnescapeChar(s[i + 1]))))
    ELSE IF s[i] \in { "\n", "\r", "\t" } THEN PFail
    ELSE ScanString(s, i + 1, Append(acc, s[i]))

RECURSIVE ScanInt(_, _, _)
ScanInt(s, i, acc) ==
    IF i <= Len(s) /\ s[i] \in Digits
    THEN ScanInt(s, i + 1, 10 * acc + ((CHOOSE k \in 1..10 : DigitChars[k] = s[i]) - 1))
    ELSE POk(JInt(acc), i)

RECURSIVE ParseValue(_, _)
RECURSIVE ParseItems(_, _, _)
RECURSIVE ParseMembers(_, _, _)
ParseValue(s, i0) ==
    LET i == SkipWs(s, i0)
    IN IF i > Len(s) THEN PFail
       ELSE IF s[i] = Quote THEN ScanString(s, i + 1, << >>)
       ELSE IF s[i] \in Digits THEN ScanInt(s, i, 0)
       ELSE IF s[i] = "["
       THEN LET j == SkipWs(s, i + 1)
            IN IF j <= Len(s) /\ s[j] = "]" THEN POk(JList(<< >>), j + 1) ELSE ParseItems(s, j, << >>)
       ELSE IF s[i] = "{"
       THEN LET j == SkipWs(s, i + 1)
            IN IF j <= Len(s) /\ s[j] = "}" THEN POk(JDict(<< >>), j + 1) ELSE ParseMembers(s, j, << >>)
       ELSE PFail
ParseItems(s, i, acc) ==
    LET r == ParseValue(s, i)
    IN IF ~r.ok THEN PFail
       ELSE LET j == SkipWs(s, r.i)
            IN IF j > Len(s) THEN PFail
               ELSE IF s[j] = "]" THEN POk(JList(Append(acc, r.v)), j + 1)
               ELSE IF s[j] = "," THEN ParseItems(s, j + 1, Append(acc, r.v))
               ELSE PFail
ParseMembers(s, i0, acc) ==
    LET i == SkipWs(s, i0)
        k == IF i <= Len(s) /\ s[i] = Quote THEN ScanString(s, i + 1, << >>) ELSE PFail
    IN IF ~k.ok THEN PFail
       ELSE LET c == SkipWs(s, k.i)
            IN IF c > Len(s) \/ s[c] # ":" THEN PFail
               ELSE LET r == ParseValue(s, c + 1)
                    IN IF ~r.ok THEN PFail
                       ELSE LET j == SkipWs(s, r.i)
                                \* a repeated key keeps its place and takes the later value
                                put == IF \E n \in 1..Len(acc) : acc[n][1] = k.v.v
                                       THEN [n \in 1..Len(acc) |->
                                               IF acc[n][1] = k.v.v THEN << k.v.v, r.v >> ELSE acc[n]]
                                       ELSE Append(acc, << k.v.v, r.v >>)
                            IN IF j > Len(s) THEN PFail
                               ELSE IF s[j] = "}" THEN POk(JDict(put), j + 1)
                               ELSE IF s[j] = "," THEN ParseMembers(s, j + 1, put)
                               ELSE PFail

\* json.loads(s): the value, or JErr when it raises JSONDecodeError
loads(s) ==
    LET r == ParseValue(s, 1)
    IN IF r.ok /\ SkipWs(s, r.i) > Len(s) THEN r.v ELSE JErr

\* dict.get(key) on a JSON dict: Optional value
DictGet(d, key) ==
    IF \E n \in 1..Len(d.v) : d.v[n][1] = key
    THEN Some(d.v[CHOOSE n \in 1..Len(d.v) : d.v[n][1] = key][2])
    ELSE None

(***************************************************************************)
(* LanguageDirection, Properties, TranslationUnit                          *)
(***************************************************************************)
K_language == << "l", "a", "n", "g", "u", "a", "g", "e" >>
K_sentence == << "s", "e", "n", "t", "e", "n", "c", "e" >>
K_translation == << "t", "r", "a", "n", "s", "l", "a", "t", "i", "o", "n" >>
K_tuid == << "t", "u", "i", "d" >>
K_creationDate == << "c", "r", "e", "a", "t", "i", "o", "n", "D", "a", "t", "e" >>
K_changeDate == << "c", "h", "a", "n", "g", "e", "D", "a", "t", "e" >>
K_properties == << "p", "r", "o", "p", "e", "r", "t", "i", "e", "s" >>
K_counter == << "c", "o", "u", "n", "t", "e", "r" >>

\* LanguageDirection.from_tuple on a JSON value: None when it raises
from_tuple(language) ==
    IF language.t # "a" \/ Len(language.v) # 2 THEN None
    ELSE IF language.v[1].t # "s" \/ language.v[2].t # "s" THEN None
    ELSE LET src == from_string(Some(language.v[1].v))
             tgt == from_string(Some(language.v[2].v))
         IN IF IsNone(src) \/ IsNone(tgt) THEN None
            ELSE Some([source |-> Get(src), target |-> Get(tgt)])

\* LanguageDirection.to_json
DirectionToJson(d) == JList(<< JStr(d.source.tag), JStr(d.target.tag) >>)

\* LanguageDirection.__eq__
DirectionEq(a, b) == LanguageEq(a.source, b.source) /\ LanguageEq(a.target, b.target)

\* Properties.from_json / Properties(other): the map, its lists copied
PropertiesFromJson(data) == [kind |-> "Properties", map |-> data.v]

\* Properties.map as a dict: the position of a key, 0 when it is absent
KeyIndex(map, key) ==
    IF \E i \in 1..Len(map) : map[i][1] = key
    THEN CHOOSE i \in 1..Len(map) : map[i][1] = key
    ELSE 0

\* Properties.get / dict.get: None when the key is absent
get(self, key) ==
    IF KeyIndex(self.map, key) = 0 THEN None ELSE Some(self.map[KeyIndex(self.map, key)][2])

\* Properties._set / Properties.set: the entry of the key is replaced whole
set(self, key, value) ==
    [self EXCEPT !.map =
        IF KeyIndex(self.map, key) = 0 THEN Append(self.map, << key, value >>)
        ELSE [self.map EXCEPT ![KeyIndex(self.map, key)] = << key, value >>]]

\* a put that replaces the entry of the key
put_replacing(self, key, value) == set(self, key, JStr(value))

\* Properties.put: absent -> single value, single -> list of two, list -> append
put(self, key, value) ==
    LET existing == get(self, key)
    IN IF IsNone(existing) THEN set(self, key, JStr(value))
       ELSE IF Get(existing).t = "a" THEN set(self, key, JList(Append(Get(existing).v, JStr(value))))
       ELSE set(self, key, JList(<< Get(existing), JStr(value) >>))

\* Properties.has, Properties.keys, Properties.size
has(self, key) == KeyIndex(self.map, key) # 0
keys(self) == [i \in 1..Len(self.map) |-> self.map[i][1]]
size(self) == Len(self.map)

\* Properties.value: the single value or the first of the list, None when absent
value(self, key) ==
    LET v == get(self, key)
    IN IF IsNone(v) THEN None
       ELSE IF Get(v).t = "a" THEN Some(Get(v).v[1].v)
       ELSE Some(Get(v).v)

\* Properties.values: a list of the values, None when absent
values(self, key) ==
    LET v == get(self, key)
    IN IF IsNone(v) THEN None
       ELSE IF Get(v).t = "a" THEN Some([i \in 1..Len(Get(v).v) |-> Get(v).v[i].v])
       ELSE Some(<< Get(v).v >>)

\* Properties.remove
remove(self, key) ==
    [self EXCEPT !.map = SelectSeq(self.map, LAMBDA kv : kv[1] # key)]

\* Properties.__eq__: the two dicts hold the same keys with the same values
PropertiesEq(a, b) ==
    /\ Len(a.map) = Len(b.map)
    /\ \A i \in 1..Len(a.map) : get(b, a.map[i][1]) = Some(a.map[i][2])

\* TranslationUnit.to_json: absent optional fields are left out
OptMember(key, o) == IF IsNone(o) THEN << >> ELSE << << key, JStr(Get(o)) >> >>
TuToJson(tu) ==
    JDict(<< << K_language, DirectionToJson(tu.language) >>,
             << K_sentence, JStr(tu.sentence) >>,
             << K_translation, JStr(tu.translation) >> >>
          \o OptMember(K_tuid, tu.tuid)
          \o OptMember(K_creationDate, tu.creation_date)
          \o OptMember(K_changeDate, tu.change_date)
          \o (IF IsNone(tu.properties) THEN << >>
              ELSE << << K_properties, JDict(Get(tu.properties).map) >> >>))

OptStr(o) == IF IsNone(o) \/ Get(o).t # "s" THEN None ELSE Some(Get(o).v)

\* TranslationUnit.from_json: None when it raises (a missing key, a bad tag)
TuFromJson(json_data) ==
    IF json_data.t # "o" THEN None
    ELSE LET lang == DictGet(json_data, K_language)
             sen == DictGet(json_data, K_sentence)
             tra == DictGet(json_data, K_translation)
             pr == DictGet(json_data, K_properties)
         IN IF IsNone(lang) \/ IsNone(sen) \/ IsNone(tra) THEN None
            ELSE IF IsNone(from_tuple(Get(lang))) THEN None
            ELSE Some([language |-> Get(from_tuple(Get(lang))),
                       sentence |-> Get(sen).v,
                       translation |-> Get(tra).v,
                       tuid |-> OptStr(DictGet(json_data, K_tuid)),
                       creation_date |-> OptStr(DictGet(json_data, K_creationDate)),
                       change_date |-> OptStr(DictGet(json_data, K_changeDate)),
                       properties |-> IF IsNone(pr) THEN None
                                      ELSE Some([kind |-> "dict", map |-> Get(pr).v])])

\* TranslationUnit.__eq__: everything but the properties
TuEq(a, b) ==
    /\ a.tuid = b.tuid
    /\ DirectionEq(a.language, b.language)
    /\ a.sentence = b.sentence
    /\ a.translation = b.translation
    /\ a.creation_date = b.creation_date
    /\ a.change_date = b.change_date

(***************************************************************************)
(* collections.Counter keyed by LanguageDirection: the (key, count) pairs  *)
(* in insertion order                                                      *)
(***************************************************************************)
CounterHas(counter, d) == \E n \in 1..Len(counter) : DirectionEq(counter[n][1], d)
CounterGet(counter, d) ==
    IF CounterHas(counter, d)
    THEN counter[CHOOSE n \in 1..Len(counter) : DirectionEq(counter[n][1], d)][2]
    ELSE 0
CounterSet(counter, d, c) ==
    IF CounterHas(counter, d)
    THEN [n \in 1..Len(counter) |->
            IF DirectionEq(counter[n][1], d) THEN << counter[n][1], c >> ELSE counter[n]]
    ELSE Append(counter, << d, c >>)
RECURSIVE CounterTotal(_)
CounterTotal(counter) == IF Len(counter) = 0 THEN 0 ELSE counter[1][2] + CounterTotal(Tail(counter))
CounterKeys(counter) == { counter[n][1] : n \in 1..Len(counter) }

(***************************************************************************)
(* JTMCorpus.Footer and shell.tail_1                                       *)
(***************************************************************************)
FOOTER_LINE_BEGIN == << ".", "f", "o", "o", "t", "e", "r" >>

\* Footer.to_json: "properties" is added when self._properties is truthy, and a
\* Properties object (no __bool__, no __len__) is truthy whenever it is not None.
FooterToJson(footer) ==
    JDict(<< << K_counter,
                JList([n \in 1..Len(footer.counter) |->
                         JList(<< DirectionToJson(footer.counter[n][1]), JInt(footer.counter[n][2]) >>)]) >> >>
          \o (IF IsNone(footer.properties) THEN << >>
              ELSE << << K_properties, JDict(Get(footer.properties).map) >> >>))

\* Footer.__str__ (the model's text is ASCII, where ensure_ascii changes nothing)
FooterStr(footer) == FOOTER_LINE_BEGIN \o dumps(FooterToJson(footer))

\* the dict comprehension of Footer.from_json: None when from_tuple raises
RECURSIVE CounterFromJson(_, _)
CounterFromJson(pairs, acc) ==
    IF Len(pairs) = 0 THEN Some(acc)
    ELSE LET pair == pairs[1]
         IN IF pair.t # "a" \/ Len(pair.v) # 2 THEN None
            ELSE IF IsNone(from_tuple(pair.v[1])) \/ pair.v[2].t # "n" THEN None
            ELSE CounterFromJson(Tail(pairs), CounterSet(acc, Get(from_tuple(pair.v[1])), pair.v[2].v))

\* Footer.from_json
FooterFromJson(data) ==
    IF data.t # "o" THEN None
    ELSE LET cnt == DictGet(data, K_counter)
             counter == IF IsNone(cnt) THEN Some(<< >>)
                        ELSE IF Get(cnt).t # "a" THEN None
                        ELSE CounterFromJson(Get(cnt).v, << >>)
             properties_data == DictGet(data, K_properties)
         IN IF IsNone(counter) THEN None
            ELSE Some([counter |-> Get(counter),
                       properties |-> IF IsNone(properties_data) \/ Len(Get(properties_data).v) = 0
                                      THEN None
                                      ELSE Some(PropertiesFromJson(Get(properties_data)))])

\* Footer.parse: None when it raises ValueError
FooterParse(line) ==
    IF startswith(line, FOOTER_LINE_BEGIN)
    THEN FooterFromJson(loads(strip(SubSeq(line, Len(FOOTER_LINE_BEGIN) + 1, Len(line)))))
    ELSE None

\* what Footer.parse raises: ValueError on a line without the marker,
\* JSONDecodeError (a ValueError) from json.loads, AttributeError from data.get
\* on a value that is no dict, and "from_json" for the TypeError or ValueError
\* raised inside the comprehension of from_json; "none" when it returns
FooterParseRaises(line) ==
    IF ~startswith(line, FOOTER_LINE_BEGIN) THEN "ValueError"
    ELSE LET data == loads(strip(SubSeq(line, Len(FOOTER_LINE_BEGIN) + 1, Len(line))))
         IN IF data.t = "err" THEN "JSONDecodeError"
            ELSE IF data.t # "o" THEN "AttributeError"
            ELSE IF IsNone(FooterFromJson(data)) THEN "from_json"
            ELSE "none"

\* Footer.get_total_count
get_total_count(footer) == CounterTotal(footer.counter)

RECURSIVE RstripNewlines(_)
RstripNewlines(s) ==
    IF Len(s) > 0 /\ s[Len(s)] = "\n" THEN RstripNewlines(SubSeq(s, 1, Len(s) - 1)) ELSE s

InitialWindow == 1024

\* the loop of shell.tail_1 (one character of the model is one byte)
RECURSIVE Tail1Loop(_, _)
Tail1Loop(content, window_size) ==
    LET file_size == Len(content)
        back == IF file_size < window_size THEN file_size ELSE window_size
        last_line == RstripNewlines(SubSeq(content, file_size - back + 1, file_size))
    IN IF \E i \in 1..Len(last_line) : last_line[i] = "\n"
       THEN LET k == CHOOSE i \in 1..Len(last_line) :
                        last_line[i] = "\n" /\ \A j \in (i + 1)..Len(last_line) : last_line[j] # "\n"
            IN SubSeq(last_line, k + 1, Len(last_line))
       ELSE IF window_size >= file_size THEN last_line
       ELSE Tail1Loop(content, window_size * 2)

tail_1(content) == Tail1Loop(content, InitialWindow)

\* iterating a text file opened with universal newlines: the lines, each with
\* its terminator ("\n", "\r" and "\r\n" all end a line and read as "\n")
RECURSIVE SplitLines(_)
SplitLines(content) ==
    LET ends == { i \in 1..Len(content) :
                    \/ content[i] = "\n"
                    \/ content[i] = "\r" /\ ~(i < Len(content) /\ content[i + 1] = "\n") }
    IN IF ends = { }
       THEN (IF Len(content) = 0 THEN << >> ELSE << content >>)
       ELSE LET e == CHOOSE i \in ends : \A j \in ends : i <= j
                n == IF content[e] = "\n" /\ e > 1 /\ content[e - 1] = "\r" THEN 2 ELSE 1
            IN << Append(SubSeq(content, 1, e - n), "\n") >> \o SplitLines(SubSeq(content, e + 1, Len(content)))

\* a lone surrogate: a str may hold one, and the utf-8 encoder of the file refuses it
LoneSurrogate == "\\ud800"
Encodable(text) == \A i \in 1..Len(text) : text[i] # LoneSurrogate

(***************************************************************************)
(* XML text: what the writer escapes and what the parser makes of it       *)
(***************************************************************************)
Amp == "&"
Semicolon == ";"

\* xml.sax.saxutils.escape(data, entities): &, > and < first, then the entities
EscapeXmlChar(c, quot) ==
    IF c = Amp THEN << Amp, "a", "m", "p", Semicolon >>
    ELSE IF c = ">" THEN << Amp, "g", "t", Semicolon >>
    ELSE IF c = "<" THEN << Amp, "l", "t", Semicolon >>
    ELSE IF quot /\ c = Quote THEN << Amp, "q", "u", "o", "t", Semicolon >>
    ELSE << c >>

RECURSIVE EscapeXml(_, _)
EscapeXml(data, quot) ==
    IF Len(data) = 0 THEN << >>
    ELSE EscapeXmlChar(data[1], quot) \o EscapeXml(Tail(data), quot)

xml_escape(data) == EscapeXml(data, FALSE)
_attr_escape(data) == EscapeXml(data, TRUE)

\* the characters of the model that XML 1.0 does not permit in a document
FormFeed == "\f"
IsXmlChar(c) == c # FormFeed

\* the character a reference stands for: the predefined entities and the
\* numeric reference to U+000C; None for any other name
RefFormFeed == << "#", "x", "0", "C" >>
ReferenceChar(name) ==
    IF name = << "a", "m", "p" >> THEN Some(Amp)
    ELSE IF name = << "l", "t" >> THEN Some("<")
    ELSE IF name = << "g", "t" >> THEN Some(">")
    ELSE IF name = << "q", "u", "o", "t" >> THEN Some(Quote)
    ELSE IF name = RefFormFeed THEN Some(FormFeed)
    ELSE None

\* the position of the first ";" at or after i, 0 when there is none
NextSemicolon(s, i) ==
    IF \E j \in i..Len(s) : s[j] = Semicolon
    THEN CHOOSE j \in i..Len(s) : s[j] = Semicolon /\ \A k \in i..(j - 1) : s[k] # Semicolon
    ELSE 0

\* the parser on character data (attr = FALSE) or on an attribute value
\* (attr = TRUE): references are replaced, line ends become "\n", and in an
\* attribute value literal white space becomes a space; None when the text is
\* not well-formed (a character XML does not permit, written raw or as a
\* reference, a bare "&" or "<")
RECURSIVE XmlDecode(_, _, _, _)
XmlDecode(s, i, attr, acc) ==
    IF i > Len(s) THEN Some(acc)
    ELSE IF s[i] = Amp
    THEN LET j == NextSemicolon(s, i)
             c == IF j = 0 THEN None ELSE ReferenceChar(SubSeq(s, i + 1, j - 1))
         IN IF IsNone(c) \/ ~IsXmlChar(Get(c)) THEN None
            ELSE XmlDecode(s, j + 1, attr, Append(acc, Get(c)))
    ELSE IF s[i] = "<" \/ ~IsXmlChar(s[i]) THEN None
    ELSE IF s[i] = "\r"
    THEN XmlDecode(s, IF i < Len(s) /\ s[i + 1] = "\n" THEN i + 2 ELSE i + 1, attr,
                   Append(acc, IF attr THEN " " ELSE "\n"))
    ELSE IF attr /\ s[i] \in { "\n", "\t" } THEN XmlDecode(s, i + 1, attr, Append(acc, " "))
    ELSE XmlDecode(s, i + 1, attr, Append(acc, s[i]))

\* "".join(elem.itertext()) and elem.attrib.get(name) on what the file holds
ElementText(raw) == XmlDecode(raw, 1, FALSE, << >>)
AttributeValue(raw) == XmlDecode(raw, 1, TRUE, << >>)

(***************************************************************************)
(* TMX reader: the helpers of TMXReader.__iter__                           *)
(***************************************************************************)
\* truthiness of an Optional str
Truthy(o) == ~IsNone(o) /\ Len(Get(o)) > 0

\* a or b on Optional strs
Or(a, b) == IF Truthy(a) THEN a ELSE b

\* _get_lang on the xml:lang and lang attributes of a <tuv>
_get_lang(xml_lang, lang) == Or(xml_lang, lang)

\* _normalize_segment
_normalize_segment(text) == strip(replace(text, "\n", " "))

\* _is_equal_or_more_generic(a, b)
_is_equal_or_more_generic(a, b) ==
    lower(a) = lower(b) \/ startswith(lower(b), Append(lower(a), "-"))

\* _is_equal_or_more_specific(a, b)
_is_equal_or_more_specific(a, b) ==
    lower(a) = lower(b) \/ startswith(lower(a), Append(lower(b), "-"))

\* the first Python index of tuvs at which P holds, as an Optional
FirstIndex(matches) ==
    IF matches = { } THEN None ELSE Some((CHOOSE i \in matches : \A j \in matches : i <= j) - 1)

\* the three searches of the end of a <tu>, in order: the exact match, then the
\* variant the source language is more generic than, then the variant that is
\* more specific than the source language; None when none finds a variant
SearchSource(tuvs, source_lang) ==
    LET exact == FirstIndex({ i \in 1..Len(tuvs) :
                     Truthy(tuvs[i].lang) /\ lower(Get(tuvs[i].lang)) = lower(source_lang) })
        generic == FirstIndex({ i \in 1..Len(tuvs) :
                     Truthy(tuvs[i].lang) /\ _is_equal_or_more_generic(source_lang, Get(tuvs[i].lang)) })
        specific == FirstIndex({ i \in 1..Len(tuvs) :
                     Truthy(tuvs[i].lang) /\ _is_equal_or_more_specific(Get(tuvs[i].lang), source_lang) })
    IN IF ~IsNone(exact) THEN exact
       ELSE IF ~IsNone(generic) THEN generic
       ELSE specific

\* a reader whose last resort is the last variant
SelectSourceLast(tuvs, source_lang) ==
    IF IsNone(SearchSource(tuvs, source_lang)) THEN Len(tuvs) - 1 ELSE Get(SearchSource(tuvs, source_lang))

\* src_idx at the end of a <tu>: what the searches find, else index 0
SelectSource(tuvs, source_lang) ==
    IF IsNone(SearchSource(tuvs, source_lang)) THEN 0 ELSE Get(SearchSource(tuvs, source_lang))

\* a pop of the first variant, whichever was chosen
WithoutFirst(tuvs, idx) == Tail(tuvs)

\* tuvs.pop(src_idx): what is left
Without(tuvs, idx) == SubSeq(tuvs, 1, idx) \o SubSeq(tuvs, idx + 2, Len(tuvs))

\* the loop over the variants left after the pop: the units it yields, and
\* whether LanguageDirection.from_tuple raised (which ends the iteration)
RECURSIVE YieldLoop(_, _, _, _, _)
YieldLoop(source_tuv, rest, attrs, properties, acc) ==
    IF Len(rest) = 0 THEN [records |-> acc, raised |-> FALSE]
    ELSE LET t == rest[1]
         IN IF ~Truthy(t.lang) \/ IsNone(t.text) \/ IsNone(source_tuv.text)
            THEN YieldLoop(source_tuv, Tail(rest), attrs, properties, acc)
            ELSE LET lang == from_tuple(JList(<< JStr(Get(source_tuv.lang)), JStr(Get(t.lang)) >>))
                 IN IF IsNone(lang) THEN [records |-> acc, raised |-> TRUE]
                    ELSE YieldLoop(source_tuv, Tail(rest), attrs, properties,
                           Append(acc, [language |-> Get(lang),
                                        sentence |-> Get(source_tuv.text),
                                        translation |-> Get(t.text),
                                        tuid |-> attrs.tuid,
                                        creation_date |-> Or(t.creationdate, attrs.creationdate),
                                        change_date |-> Or(t.changedate, attrs.changedate),
                                        properties |-> properties]))

(***************************************************************************)
(* The inputs of the line-format scenario                                  *)
(***************************************************************************)
MaxRecords == 3

S_en == << "e", "n" >>
S_fr == << "f", "r" >>
S_it == << "i", "t" >>
S_es == << "e", "s" >>
S_en_us == << "e", "n", "_", "u", "s" >>
S_en_US == << "e", "n", "-", "U", "S" >>
S_en__US == << "e", "n", "_", "U", "S" >>
S_Italian == << "I", "t", "a", "l", "i", "a", "n" >>

Direction(src, tgt) == Get(from_tuple(JList(<< JStr(src), JStr(tgt) >>)))

TranslationUnit(language, sentence, translation, tuid, creation_date, change_date, properties) ==
    [language |-> language, sentence |-> sentence, translation |-> translation, tuid |-> tuid,
     creation_date |-> creation_date, change_date |-> change_date, properties |-> properties]

P_note == [kind |-> "Properties", map |-> << << << "n", "o", "t", "e" >>, JStr(<< "t" >>) >> >>]
P_empty == [kind |-> "Properties", map |-> << >>]

\* the units a caller writes: plain text, text with line breaks, quotes and
\* backslashes, text that begins like a footer, and text the file cannot encode
RecordPool ==
    { TranslationUnit(Direction(S_en, S_fr), << "H", "i" >>, << "S", "a" >>, None, None, None, None),
      TranslationUnit(Direction(S_en_us, S_fr), << "a", "\n", "\r", "b" >>, << Quote, Backslash, "n" >>,
                      Some(<< "7" >>), Some(<< "2", "0" >>), None, None),
      TranslationUnit(Direction(S_en, S_fr), FOOTER_LINE_BEGIN, << >>, None, None, Some(<< "2", "1" >>),
                      Some(P_note)),
      TranslationUnit(Direction(S_it, S_en), << "x", LoneSurrogate >>, << "y" >>, None, None, None, None) }

RECURSIVE SeqsUpTo(_, _)
SeqsUpTo(S, n) ==
    IF n = 0 THEN { << >> }
    ELSE LET shorter == SeqsUpTo(S, n - 1)
         IN shorter \cup { Append(q, x) : q \in { r \in shorter : Len(r) = n - 1 }, x \in S }

PropertiesChoices == { None, Some(P_empty), Some(P_note) }

(***************************************************************************)
(* State                                                                   *)
(***************************************************************************)
VARIABLES
    disk,           \* the file at the corpus path: None, or its text
    w_file,         \* JTMWriter._file: "none", "open" or "closed"
    w_counter,      \* JTMWriter._counter
    w_properties,   \* JTMWriter._properties
    tus,            \* the caller's units (TestCorpus._write)
    w_i,            \* the caller's position in tus
    h_pc,           \* the caller: "start", "writing", "raising", "closed", "reading", "done"
    h_exc,          \* what raised in the writer scope: "none", "body" or "write"
    r_file,         \* JTMReader._file: "none", "open" or "closed"
    r_lines,        \* the lines JTMReader's file iterator has not delivered yet
    units,          \* the units the reader has yielded (TestCorpus._read)
    r_err,          \* whether the reader's iteration raised
    c_footer,       \* JTMCorpus._footer of the caller's corpus handle
    c_err           \* what a footer query on that handle raised, "none" when none did

VARIABLES
    x_pc,           \* TMXReader.__iter__: "start", "body", "tu", "tuv", "eof", "failed" (a tag) or "parse_error"
    header_srclang, \* TMXReader._header_srclang
    tu_attrs,       \* the attributes of the <tu> being read
    tu_properties,  \* the Properties of the <tu> being read
    tuv_current,    \* the <tuv> being read
    tuvs,           \* the variants of the <tu> read so far
    tuv_elem,       \* input: the <tuv> element under the parser
    entry,          \* input: the <tu> element under the parser, or the last one ended
    src_idx,        \* the src_idx chosen at the end of that <tu>
    out             \* the units yielded at the end of that <tu>

lineVars == << disk, w_file, w_counter, w_properties, tus, w_i, h_pc, h_exc,
               r_file, r_lines, units, r_err, c_footer, c_err >>

xmlVars == << x_pc, header_srclang, tu_attrs, tu_properties, tuv_current, tuvs, tuv_elem, entry,
              src_idx, out >>

VARIABLES
    t_disk,         \* the file at the TMX corpus path: None, or its lines
    t_file,         \* TMXWriter._file: "none", "open" or "closed"
    t_header_written,    \* TMXWriter._header_written
    t_header_properties, \* TMXWriter._header_properties
    t_tus,          \* the caller's units (TestCorpus._write)
    t_i,            \* the caller's position in t_tus
    t_pc,           \* the caller: "start", "writing", "raising", "closed", "done"
    t_exc,          \* what raised in the writer scope: "none", "body", "write" or "exit"
    t_units,        \* the units the reader has yielded (TestCorpus._read)
    t_err           \* whether the reader's iteration raised

tmxVars == << t_disk, t_file, t_header_written, t_header_properties, t_tus, t_i, t_pc, t_exc,
              t_units, t_err >>

VARIABLES
    g_in,           \* the strings a caller hands to Language.from_string, in order
    g_tags,         \* what from_string made of them so far: a Language, or None when it raised
    g_re            \* what from_string made of the tag of each of these Languages

langVars == << g_in, g_tags, g_re >>

VARIABLES
    p_props,        \* a Properties a caller works on
    p_calls         \* for each key, the calls made on it since it was last absent

propVars == << p_props, p_calls >>

VARIABLES
    pp_source,      \* the content of the source-language file
    pp_target,      \* the content of the target-language file
    pp_tus,         \* the units a caller hands to ParallelCorpusWriter.write, in order
    pp_i,           \* the next of them
    pp_pc,          \* "start", "writing", "raised", "closed", "done"
    pp_exc,         \* the exception a write raised, "none" so far
    pp_units        \* what a ParallelCorpusReader on the two files yields

pairVars == << pp_source, pp_target, pp_tus, pp_i, pp_pc, pp_exc, pp_units >>

VARIABLES
    n_path,         \* the path a caller hands to JTMCorpus
    n_corpus,       \* what the JTMCorpus of larakit/corpus/jtm.py made of it: "unset", or an Optional
    n_name          \* the name of the JTMCorpus of larakit/corpus/_jtm.py on it: "unset", or an Optional

nameVars == << n_path, n_corpus, n_name >>

VARIABLES
    q_source,       \* the source-language file a reader is pointed at: None when it cannot be opened, or its content
    q_target,       \* the target-language file, likewise
    q_source_file,  \* ParallelCorpusReader._source_file: "none", "open" or "closed"
    q_target_file,  \* ParallelCorpusReader._target_file: "none", "open" or "closed"
    q_source_lines, \* the lines the source file's iterator has not delivered yet
    q_target_lines, \* the lines the target file's iterator has not delivered yet
    q_units,        \* the units the reader has yielded
    q_pc            \* the caller: "start", "reading", "exhausted", "unavailable", "done"

pairReaderVars == << q_source, q_target, q_source_file, q_target_file, q_source_lines, q_target_lines,
                     q_units, q_pc >>

VARIABLES
    u_tus,          \* the units a caller hands to write on writers it never opened, in order
    u_i,            \* the next of them
    u_call,         \* the last call made on an unopened reader or writer, "none" before the first
    u_exc           \* what that call raised

callVars == << u_tus, u_i, u_call, u_exc >>

VARIABLES
    f_files,            \* the lines of the TMX file before and after it is rewritten (None: no file)
    f_k,                \* which of the two is on disk
    f_languages,        \* TMXCorpus._languages
    f_length,           \* TMXCorpus._length
    f_header_properties,\* TMXCorpus._header_properties
    f_query,            \* the last query made on the instance, "none" before the first
    f_result,           \* what it returned
    f_exc,              \* what it raised, "none" when it returned
    f_read,             \* whether it opened the file
    f_entries,          \* how many <tu> elements its read pass handled the end of
    f_first,            \* for each query, the first value the instance returned for it
    f_again             \* whether the last query had been answered on the instance before

facadeVars == << f_files, f_k, f_languages, f_length, f_header_properties, f_query, f_result, f_exc,
                 f_read, f_entries, f_first, f_again >>

VARIABLES
    l_content,      \* the bytes of the file tail_1 is called on
    l_window,       \* window_size
    l_pc,           \* "loop" while tail_1 is in its loop, "done" when it has returned
    l_result        \* what it returned

tailVars == << l_content, l_window, l_pc, l_result >>

VARIABLES
    k_chunks,       \* the chunks of the text handed to Language.from_string
    k_sep,          \* the separator the text has between them
    k_pc,           \* "start", then "parsed"
    k_lang,         \* the Language from_string returned
    k_only          \* what its is_language_only() returned

subtagVars == << k_chunks, k_sep, k_pc, k_lang, k_only >>

\* two Properties objects and the lists they hold: h_heap are the list objects
\* by identity, h_next the next identity to hand out, h_maps the two
\* dictionaries (the second one exists once h_copied), h_ret the list the
\* last values() call returned, h_op the last call made
VARIABLES h_heap, h_next, h_maps, h_copied, h_ret, h_op

heapVars == << h_heap, h_next, h_maps, h_copied, h_ret, h_op >>

\* TMXReader.__iter__ one parser event at a time: e_stack the open elements,
\* e_tu_attrs, e_tu_properties, e_tuv_current and e_tuvs the locals of the
\* loop, e_header_properties the reader's, e_records the units yielded with
\* the <tu> element whose end yielded each, e_serial the <tu> elements
\* started, e_n the events handled, e_last the last event
VARIABLES e_stack, e_tu_attrs, e_tu_properties, e_tuv_current, e_tuvs, e_header_properties,
          e_records, e_serial, e_n, e_last

eventVars == << e_stack, e_tu_attrs, e_tu_properties, e_tuv_current, e_tuvs, e_header_properties,
               e_records, e_serial, e_n, e_last >>

\* `for tu in reader: writer.write(tu)`: g_lines the record lines the reader
\* has not delivered, g_line the line of the unit last yielded, g_tu that
\* unit, g_out the lines the writer wrote, g_counted the units it counted,
\* g_pc the loop ("reading", "yielded", "failed", "done"), g_exc what raised
VARIABLES g_lines, g_line, g_tu, g_out, g_counted, g_pc, g_exc

refilterVars == << g_lines, g_line, g_tu, g_out, g_counted, g_pc, g_exc >>

\* a corpus file that is written again through JTMCorpus(path).writer():
\* y_disk the text at the path, y_before the text of the closed corpus,
\* y_footer the handle's _footer, y_properties and y_counter the writer's,
\* y_pc "closed", "obtained", "open" or "rewritten"
VARIABLES y_disk, y_before, y_footer, y_properties, y_counter, y_pc

rewriteVars == << y_disk, y_before, y_footer, y_properties, y_counter, y_pc >>

\* one JTMWriter object opened more than once: z_disk the text at its path,
\* z_file its _file ("none", "open", "closed"), z_counter its _counter,
\* z_scopes the scopes entered
VARIABLES z_disk, z_file, z_counter, z_scopes

reuseVars == << z_disk, z_file, z_counter, z_scopes >>

\* a PipelineActivity run again and again on one working directory:
\* a_config the steps of the class and whether an output path is given,
\* a_file the state.json of the directory (None when there is none), a_state
\* the activity's state, a_delete its delete_on_exit, a_i the index of the
\* loop of run, a_pc "none", "constructed", "running", "failed" or "finished",
\* a_runs the activities constructed, a_last what the loop did last, a_saved
\* the steps whose completion was saved in the directory and a_produced those
\* of them that appended an output path, a_overridden whether an activity
\* was given a start_step
VARIABLES a_config, a_file, a_state, a_delete, a_i, a_pc, a_runs, a_last, a_saved, a_produced,
          a_overridden

activityVars == << a_config, a_file, a_state, a_delete, a_i, a_pc, a_runs, a_last, a_saved, a_produced,
                  a_overridden >>

\* mp_apply: n_items the items of the generator, n_input those the loader
\* has not put yet, n_capacity the maxsize of the job queue, n_ordered the
\* flag, n_jobs the job queue, n_loader the loader thread ("running" or
\* "finished"), n_feeder the pool's thread that draws tasks from
\* iter(jobs.get, None) ("running" or "stopped"), n_tasks the items it drew,
\* n_done the tasks a worker has computed, n_yielded the tasks whose result
\* was yielded, n_main the caller's thread ("iterating", "joining",
\* "returned")
VARIABLES n_items, n_input, n_capacity, n_ordered, n_jobs, n_loader, n_feeder, n_tasks, n_done,
          n_yielded, n_main

applyVars == << n_items, n_input, n_capacity, n_ordered, n_jobs, n_loader, n_feeder, n_tasks, n_done,
               n_yielded, n_main >>

\* the variables of the other scenarios
restVars == << tmxVars, langVars, propVars, pairVars, nameVars, pairReaderVars, callVars, facadeVars, tailVars, subtagVars, heapVars, eventVars, refilterVars, rewriteVars, reuseVars, activityVars, applyVars >>

vars == << lineVars, xmlVars, restVars >>

\* no TMX writer is at work
TmxIdle ==
    /\ t_disk = << >>
    /\ t_file = "none"
    /\ t_header_written = FALSE
    /\ t_header_properties = << >>
    /\ t_tus = << >>
    /\ t_i = 1
    /\ t_pc = "idle"
    /\ t_exc = "none"
    /\ t_units = << >>
    /\ t_err = FALSE

\* no language tag is being parsed
LangIdle ==
    /\ g_in = << >>
    /\ g_tags = << >>
    /\ g_re = << >>

\* no Properties is being worked on
PropsIdle ==
    /\ p_props = << >>
    /\ p_calls = << >>

\* no pair of plain text files is being written
PairIdle ==
    /\ pp_source = << >>
    /\ pp_target = << >>
    /\ pp_tus = << >>
    /\ pp_i = 1
    /\ pp_pc = "idle"
    /\ pp_exc = "none"
    /\ pp_units = << >>

\* no corpus is being constructed on a path
NameIdle ==
    /\ n_path = << >>
    /\ n_corpus = "idle"
    /\ n_name = "idle"

\* no plain text pair is being read
PairReaderIdle ==
    /\ q_source = None
    /\ q_target = None
    /\ q_source_file = "none"
    /\ q_target_file = "none"
    /\ q_source_lines = << >>
    /\ q_target_lines = << >>
    /\ q_units = << >>
    /\ q_pc = "idle"

\* no call is being made on an unopened reader or writer
CallIdle ==
    /\ u_tus = << >>
    /\ u_i = 1
    /\ u_call = "idle"
    /\ u_exc = "none"

\* no TMX corpus facade is in use
FacadeIdle ==
    /\ f_files = << >>
    /\ f_k = 0
    /\ f_languages = None
    /\ f_length = None
    /\ f_header_properties = None
    /\ f_query = "idle"
    /\ f_result = << >>
    /\ f_exc = "none"
    /\ f_read = FALSE
    /\ f_entries = 0
    /\ f_first = << >>
    /\ f_again = FALSE

\* tail_1 is not being called
TailIdle ==
    /\ l_content = << >>
    /\ l_window = 0
    /\ l_pc = "idle"
    /\ l_result = << >>

\* no text is being parsed chunk by chunk
SubtagIdle ==
    /\ k_chunks = << >>
    /\ k_sep = "-"
    /\ k_pc = "idle"
    /\ k_lang = None
    /\ k_only = FALSE

\* no multimap was copied
HeapIdle ==
    /\ h_heap = << >>
    /\ h_next = 0
    /\ h_maps = << >>
    /\ h_copied = FALSE
    /\ h_ret = 0
    /\ h_op = << >>

\* no event stream is read
EventIdle ==
    /\ e_stack = << >>
    /\ e_tu_attrs = << >>
    /\ e_tu_properties = << >>
    /\ e_tuv_current = << >>
    /\ e_tuvs = << >>
    /\ e_header_properties = << >>
    /\ e_records = << >>
    /\ e_serial = 0
    /\ e_n = 0
    /\ e_last = << >>

\* nothing is re-filtered
RefilterIdle ==
    /\ g_lines = << >>
    /\ g_line = << >>
    /\ g_tu = << >>
    /\ g_out = << >>
    /\ g_counted = 0
    /\ g_pc = "idle"
    /\ g_exc = "none"

\* nothing is rewritten
RewriteIdle ==
    /\ y_disk = << >>
    /\ y_before = << >>
    /\ y_footer = << >>
    /\ y_properties = << >>
    /\ y_counter = << >>
    /\ y_pc = "idle"

\* no writer is re-used
ReuseIdle ==
    /\ z_disk = << >>
    /\ z_file = "idle"
    /\ z_counter = << >>
    /\ z_scopes = 0

\* no pipeline is run
ActivityIdle ==
    /\ a_config = << >>
    /\ a_file = << >>
    /\ a_state = << >>
    /\ a_delete = FALSE
    /\ a_i = 0
    /\ a_pc = "idle"
    /\ a_runs = 0
    /\ a_last = << >>
    /\ a_saved = { }
    /\ a_produced = { }
    /\ a_overridden = FALSE

\* mp_apply is not called
ApplyIdle ==
    /\ n_items = << >>
    /\ n_input = << >>
    /\ n_capacity = 0
    /\ n_ordered = FALSE
    /\ n_jobs = << >>
    /\ n_loader = "idle"
    /\ n_feeder = "idle"
    /\ n_tasks = << >>
    /\ n_done = { }
    /\ n_yielded = << >>
    /\ n_main = "idle"

RestIdle == TmxIdle /\ LangIdle /\ PropsIdle /\ PairIdle /\ NameIdle /\ PairReaderIdle /\ CallIdle /\ FacadeIdle /\ TailIdle /\ SubtagIdle /\ HeapIdle /\ EventIdle /\ RefilterIdle /\ RewriteIdle /\ ReuseIdle /\ ActivityIdle /\ ApplyIdle

\* what the TMX writer scenario leaves alone
notTmxVars == << lineVars, xmlVars, langVars, propVars, pairVars, nameVars, pairReaderVars, callVars, facadeVars, tailVars, subtagVars, heapVars, eventVars, refilterVars, rewriteVars, reuseVars, activityVars, applyVars >>

\* what the language tag scenario leaves alone
notLangVars == << lineVars, xmlVars, tmxVars, propVars, pairVars, nameVars, pairReaderVars, callVars, facadeVars, tailVars, subtagVars, heapVars, eventVars, refilterVars, rewriteVars, reuseVars, activityVars, applyVars >>

\* what the Properties scenario leaves alone
notPropVars == << lineVars, xmlVars, tmxVars, langVars, pairVars, nameVars, pairReaderVars, callVars, facadeVars, tailVars, subtagVars, heapVars, eventVars, refilterVars, rewriteVars, reuseVars, activityVars, applyVars >>

\* what the plain text pair scenario leaves alone
notPairVars == << lineVars, xmlVars, tmxVars, langVars, propVars, nameVars, pairReaderVars, callVars, facadeVars, tailVars, subtagVars, heapVars, eventVars, refilterVars, rewriteVars, reuseVars, activityVars, applyVars >>

\* what the filename scenario leaves alone
notNameVars == << lineVars, xmlVars, tmxVars, langVars, propVars, pairVars, pairReaderVars, callVars, facadeVars, tailVars, subtagVars, heapVars, eventVars, refilterVars, rewriteVars, reuseVars, activityVars, applyVars >>

\* what the plain text pair reader scenario leaves alone
notPairReaderVars == << lineVars, xmlVars, tmxVars, langVars, propVars, pairVars, nameVars, callVars, facadeVars, tailVars, subtagVars, heapVars, eventVars, refilterVars, rewriteVars, reuseVars, activityVars, applyVars >>

\* what the scenario of calls on unopened readers and writers leaves alone
notCallVars == << lineVars, xmlVars, tmxVars, langVars, propVars, pairVars, nameVars, pairReaderVars, facadeVars, tailVars, subtagVars, heapVars, eventVars, refilterVars, rewriteVars, reuseVars, activityVars, applyVars >>

\* what the TMX corpus facade scenario leaves alone
notFacadeVars == << lineVars, xmlVars, tmxVars, langVars, propVars, pairVars, nameVars, pairReaderVars, callVars, tailVars, subtagVars, heapVars, eventVars, refilterVars, rewriteVars, reuseVars, activityVars, applyVars >>

\* what the tail_1 scenario leaves alone
notTailVars == << lineVars, xmlVars, tmxVars, langVars, propVars, pairVars, nameVars, pairReaderVars, callVars, facadeVars, subtagVars, heapVars, eventVars, refilterVars, rewriteVars, reuseVars, activityVars, applyVars >>

\* what the subtag recognition scenario leaves alone
notSubtagVars == << lineVars, xmlVars, tmxVars, langVars, propVars, pairVars, nameVars, pairReaderVars, callVars, facadeVars, tailVars, heapVars, eventVars, refilterVars, rewriteVars, reuseVars, activityVars, applyVars >>

\* what what the copied-multimap scenario leaves alone leaves alone
notHeapVars == << lineVars, xmlVars, tmxVars, langVars, propVars, pairVars, nameVars, pairReaderVars, callVars, facadeVars, tailVars, subtagVars, eventVars, refilterVars, rewriteVars, reuseVars, activityVars, applyVars >>

\* what what the TMX event scenario leaves alone leaves alone
notEventVars == << lineVars, xmlVars, tmxVars, langVars, propVars, pairVars, nameVars, pairReaderVars, callVars, facadeVars, tailVars, subtagVars, heapVars, refilterVars, rewriteVars, reuseVars, activityVars, applyVars >>

\* what what the re-filtering scenario leaves alone leaves alone
notRefilterVars == << lineVars, xmlVars, tmxVars, langVars, propVars, pairVars, nameVars, pairReaderVars, callVars, facadeVars, tailVars, subtagVars, heapVars, eventVars, rewriteVars, reuseVars, activityVars, applyVars >>

\* what what the rewriting scenario leaves alone leaves alone
notRewriteVars == << lineVars, xmlVars, tmxVars, langVars, propVars, pairVars, nameVars, pairReaderVars, callVars, facadeVars, tailVars, subtagVars, heapVars, eventVars, refilterVars, reuseVars, activityVars, applyVars >>

\* what what the writer re-use scenario leaves alone leaves alone
notReuseVars == << lineVars, xmlVars, tmxVars, langVars, propVars, pairVars, nameVars, pairReaderVars, callVars, facadeVars, tailVars, subtagVars, heapVars, eventVars, refilterVars, rewriteVars, activityVars, applyVars >>

\* what what the pipeline scenario leaves alone leaves alone
notActivityVars == << lineVars, xmlVars, tmxVars, langVars, propVars, pairVars, nameVars, pairReaderVars, callVars, facadeVars, tailVars, subtagVars, heapVars, eventVars, refilterVars, rewriteVars, reuseVars, applyVars >>

\* what what the mp_apply scenario leaves alone leaves alone
notApplyVars == << lineVars, xmlVars, tmxVars, langVars, propVars, pairVars, nameVars, pairReaderVars, callVars, facadeVars, tailVars, subtagVars, heapVars, eventVars, refilterVars, rewriteVars, reuseVars, activityVars >>

NoAttrs == [tuid |-> None, srclang |-> None, creationdate |-> None, changedate |-> None]

\* no TMX reader is at work
XmlIdle ==
    /\ x_pc = "idle"
    /\ header_srclang = None
    /\ tu_attrs = NoAttrs
    /\ tu_properties = None
    /\ tuv_current = None
    /\ tuvs = << >>
    /\ tuv_elem = None
    /\ entry = None
    /\ src_idx = None
    /\ out = << >>

\* no line-format corpus is at work
LineIdle ==
    /\ disk = None
    /\ w_file = "none"
    /\ w_counter = << >>
    /\ w_properties = None
    /\ tus = << >>
    /\ w_i = 1
    /\ h_pc = "idle"
    /\ h_exc = "none"
    /\ r_file = "none"
    /\ r_lines = << >>
    /\ units = << >>
    /\ r_err = FALSE
    /\ c_footer = None
    /\ c_err = "none"

LineInit ==
    /\ disk = None
    /\ w_file = "none"
    /\ w_counter = << >>
    /\ w_properties \in PropertiesChoices
    /\ tus \in SeqsUpTo(RecordPool, MaxRecords)
    /\ w_i = 1
    /\ h_pc = "start"
    /\ h_exc = "none"
    /\ r_file = "none"
    /\ r_lines = << >>
    /\ units = << >>
    /\ r_err = FALSE
    /\ c_footer = None
    /\ c_err = "none"
    /\ XmlIdle
    /\ RestIdle

(***************************************************************************)
(* JTMWriter                                                               *)
(***************************************************************************)
\* JTMWriter.__enter__: open(path, 'w') creates or truncates the file
WriterEnter ==
    /\ h_pc = "start"
    /\ disk' = Some(<< >>)
    /\ w_file' = "open"
    /\ h_pc' = "writing"
    /\ UNCHANGED << w_counter, w_properties, tus, w_i, h_exc, r_file, r_lines, units, r_err,
                    c_footer, c_err >>
    /\ UNCHANGED << xmlVars, restVars >>

\* a writer that ends no line
RecordLineUnterminated(tu) == dumps(TuToJson(tu))

\* the text JTMWriter.write hands to the file
RecordLine(tu) == dumps(TuToJson(tu)) \o << "\n" >>

\* a writer that records a direction without counting its units
CounterAfterWriteUncounted(counter, tu) == CounterSet(counter, tu.language, 1)

\* the counter after JTMWriter.write(tu), whether or not the file took the line
CounterAfterWrite(counter, tu) == CounterSet(counter, tu.language, CounterGet(counter, tu.language) + 1)

\* JTMWriter.write(tus[w_i]): the counter is incremented, then the line is
\* written; the file's encoder raises on text it cannot encode.
WriterWrite ==
    /\ h_pc = "writing"
    /\ w_i <= Len(tus)
    /\ LET tu == tus[w_i]
           written == Encodable(RecordLine(tu))
       IN /\ w_counter' = CounterAfterWrite(w_counter, tu)
          /\ IF written
             THEN /\ disk' = Some(Get(disk) \o RecordLine(tu))
                  /\ w_i' = w_i + 1
                  /\ UNCHANGED << h_pc, h_exc >>
             ELSE /\ h_pc' = "raising"
                  /\ h_exc' = "write"
                  /\ UNCHANGED << disk, w_i >>
    /\ UNCHANGED << w_file, w_properties, tus, r_file, r_lines, units, r_err, c_footer, c_err >>
    /\ UNCHANGED << xmlVars, restVars >>

\* a statement of the scope body other than write raises
BodyRaise ==
    /\ h_pc = "writing"
    /\ h_pc' = "raising"
    /\ h_exc' = "body"
    /\ UNCHANGED << disk, w_file, w_counter, w_properties, tus, w_i, r_file, r_lines, units, r_err,
                    c_footer, c_err >>
    /\ UNCHANGED << xmlVars, restVars >>

\* the text JTMWriter.__exit__ appends
FooterLine(counter, properties) == FooterStr([counter |-> counter, properties |-> properties]) \o << "\n" >>

\* JTMWriter.__exit__, at the end of the body or on its exception
WriterExit ==
    /\ \/ h_pc = "writing" /\ w_i > Len(tus)
       \/ h_pc = "raising"
    /\ disk' = Some(Get(disk) \o FooterLine(w_counter, w_properties))
    /\ w_file' = "closed"
    /\ h_pc' = "closed"
    /\ UNCHANGED << w_counter, w_properties, tus, w_i, h_exc, r_file, r_lines, units, r_err,
                    c_footer, c_err >>
    /\ UNCHANGED << xmlVars, restVars >>

(***************************************************************************)
(* JTMReader                                                               *)
(***************************************************************************)
\* JTMReader.__enter__ on the closed corpus
ReaderEnter ==
    /\ h_pc = "closed"
    /\ r_file' = "open"
    /\ r_lines' = SplitLines(Get(disk))
    /\ h_pc' = "reading"
    /\ UNCHANGED << disk, w_file, w_counter, w_properties, tus, w_i, h_exc, units, r_err,
                    c_footer, c_err >>
    /\ UNCHANGED << xmlVars, restVars >>

\* a reader that passes over empty lines too
IsFooterOrEmptyLine(line) == startswith(line, FOOTER_LINE_BEGIN) \/ strip(line) = << >>

\* whether JTMReader.__iter__ passes over the line
IsFooterLine(line) == startswith(line, FOOTER_LINE_BEGIN)

\* what JTMReader.__iter__ makes of a line it does not pass over
ReadRecord(line) == IF loads(line).t = "err" THEN None ELSE TuFromJson(loads(line))

\* one line of JTMReader.__iter__
ReaderNext ==
    /\ h_pc = "reading"
    /\ ~r_err
    /\ Len(r_lines) > 0
    /\ r_lines' = Tail(r_lines)
    /\ IF IsFooterLine(r_lines[1])
       THEN UNCHANGED << units, r_err >>
       ELSE IF IsNone(ReadRecord(r_lines[1]))
       THEN /\ r_err' = TRUE
            /\ UNCHANGED units
       ELSE /\ units' = Append(units, Get(ReadRecord(r_lines[1])))
            /\ UNCHANGED r_err
    /\ UNCHANGED << disk, w_file, w_counter, w_properties, tus, w_i, h_pc, h_exc, r_file,
                    c_footer, c_err >>
    /\ UNCHANGED << xmlVars, restVars >>

\* JTMReader.__exit__, at the end of the file or on the iteration's exception
ReaderExit ==
    /\ h_pc = "reading"
    /\ r_err \/ Len(r_lines) = 0
    /\ r_file' = "closed"
    /\ h_pc' = "done"
    /\ UNCHANGED << disk, w_file, w_counter, w_properties, tus, w_i, h_exc, r_lines, units, r_err,
                    c_footer, c_err >>
    /\ UNCHANGED << xmlVars, restVars >>

(***************************************************************************)
(* JTMCorpus                                                               *)
(***************************************************************************)
\* JTMCorpus._parse_footer on an existing file: None when Footer.parse raises
_parse_footer(content) == FooterParse(tail_1(content))

\* what JTMCorpus._parse_footer raises on an existing file
_parse_footer_raises(content) == FooterParseRaises(tail_1(content))

\* JTMCorpus.footer on a handle that has no footer cached
CorpusFooter ==
    /\ IsNone(c_footer)
    /\ c_err = "none"
    /\ ~IsNone(disk)
    /\ IF IsNone(_parse_footer(Get(disk)))
       THEN c_err' = _parse_footer_raises(Get(disk)) /\ UNCHANGED c_footer
       ELSE c_footer' = _parse_footer(Get(disk)) /\ UNCHANGED c_err
    /\ UNCHANGED << disk, w_file, w_counter, w_properties, tus, w_i, h_pc, h_exc,
                    r_file, r_lines, units, r_err >>
    /\ UNCHANGED << xmlVars, restVars >>

\* JTMCorpus(path): the caller takes a fresh handle
CorpusNew ==
    /\ ~IsNone(c_footer) \/ c_err # "none"
    /\ c_footer' = None
    /\ c_err' = "none"
    /\ UNCHANGED << disk, w_file, w_counter, w_properties, tus, w_i, h_pc, h_exc,
                    r_file, r_lines, units, r_err >>
    /\ UNCHANGED << xmlVars, restVars >>

\* JTMCorpus.languages and JTMCorpus.__len__ on a parsed footer
languages(footer) == CounterKeys(footer.counter)

LineNext ==
    \/ WriterEnter
    \/ WriterWrite
    \/ BodyRaise
    \/ WriterExit
    \/ ReaderEnter
    \/ ReaderNext
    \/ ReaderExit
    \/ CorpusFooter
    \/ CorpusNew

SpecLine == LineInit /\ [][LineNext]_vars

(***************************************************************************)
(* Line format: properties                                                 *)
(***************************************************************************)
ScopeClosed == h_pc \in { "closed", "reading", "done" }

\* the units whose lines the file took
Written == SubSeq(tus, 1, w_i - 1)

CountOf(records, d) == Cardinality({ k \in 1..Len(records) : DirectionEq(records[k].language, d) })

PoolDirections == { tu.language : tu \in RecordPool }

\* C1: after one writer scope that wrote N units and closed, a reader on the
\* same path yields exactly N units, equal to the written ones one by one and
\* in write order; duplicates are kept and the footer line is not a unit.
C1_RoundTrip ==
    (h_pc = "done" /\ h_exc = "none") =>
        /\ ~r_err
        /\ Len(units) = Len(tus)
        /\ \A k \in 1..Len(tus) : TuEq(units[k], tus[k])

C1_Witness ==
    /\ h_pc = "done"
    /\ h_exc = "none"
    /\ Len(tus) = 3
    /\ TuEq(tus[1], tus[3])
    /\ ~DirectionEq(tus[1].language, tus[2].language)
    /\ Len(units) = 3

\* C2: after a writer scope that wrote N units has closed, a corpus handle
\* that holds no footer yet gets one from the last line of the file; its count
\* for each direction is the number of units written with it, its total is N
\* and its languages are the directions written.
C2_FooterCounts ==
    (ScopeClosed /\ h_exc = "none") =>
        /\ ~IsNone(_parse_footer(Get(disk)))
        /\ ~IsNone(c_footer) =>
              /\ \A d \in PoolDirections : CounterGet(Get(c_footer).counter, d) = CountOf(tus, d)
              /\ get_total_count(Get(c_footer)) = Len(tus)
              /\ languages(Get(c_footer)) = { tus[k].language : k \in 1..Len(tus) }

C2_Witness ==
    /\ ScopeClosed
    /\ h_exc = "none"
    /\ ~IsNone(c_footer)
    /\ Len(tus) = 3
    /\ Cardinality(languages(Get(c_footer))) = 2
    /\ \E d \in PoolDirections : CounterGet(Get(c_footer).counter, d) = 2

\* C3: when the body of a writer scope raises after k units were written, also
\* when it is a write that raises, the scope's exit appends exactly one footer
\* and closes the file; the last line is then a footer whose counts are those
\* of the record lines in the file, and a reader yields exactly those k units.
C3_FailurePathFooter ==
    (ScopeClosed /\ h_exc # "none") =>
        /\ w_file = "closed"
        /\ Cardinality({ n \in 1..Len(SplitLines(Get(disk))) : IsFooterLine(SplitLines(Get(disk))[n]) }) = 1
        /\ ~IsNone(_parse_footer(Get(disk)))
        /\ \A d \in PoolDirections :
              CounterGet(Get(_parse_footer(Get(disk))).counter, d) = CountOf(Written, d)
        /\ h_pc = "done" =>
              /\ ~r_err
              /\ Len(units) = Len(Written)
              /\ \A k \in 1..Len(Written) : TuEq(units[k], Written[k])

(***************************************************************************)
(* The inputs of the TMX scenario                                          *)
(***************************************************************************)
MaxTuvs == 3

TuvElement(xml_lang, lang, seg) == [xml_lang |-> xml_lang, lang |-> lang, seg |-> seg]

\* the <tuv> elements a document holds: plain ones, tags that differ from
\* one another in separator, case and region, a tag given by a bare lang
\* attribute, an empty <seg/>, no <seg> at all, no language, text with
\* white space and a line break, a tag that does not parse, and text that
\* holds U+000C, raw and as a character reference
TuvPool ==
    { TuvElement(Some(S_en), None, Some(<< "E" >>)),
      TuvElement(Some(S_en_US), None, Some(<< "U" >>)),
      TuvElement(Some(S_en_us), None, Some(<< "u" >>)),
      TuvElement(Some(S_it), None, Some(<< "I" >>)),
      TuvElement(None, Some(S_fr), Some(<< "F" >>)),
      TuvElement(Some(S_it), None, Some(<< >>)),
      TuvElement(Some(S_fr), None, None),
      TuvElement(None, None, Some(<< "X" >>)),
      TuvElement(Some(S_es), None, Some(<< " ", "a", "\n", "b", " " >>)),
      TuvElement(Some(S_Italian), None, Some(<< "I" >>)),
      TuvElement(Some(S_en), None, Some(<< "H", FormFeed, "o" >>)),
      TuvElement(Some(S_en), None, Some(<< Amp >> \o RefFormFeed \o << Semicolon >>)) }

\* the srclang attribute of a <tu> and of the <header>
TuSrclangs == { None, Some(S_en), Some(S_en_US), Some(S_en__US) }
HeaderSrclangs == { None, Some(S_en) }

XmlInit ==
    /\ x_pc = "start"
    /\ header_srclang = None
    /\ tu_attrs = NoAttrs
    /\ tu_properties = None
    /\ tuv_current = None
    /\ tuvs = << >>
    /\ tuv_elem = None
    /\ entry = None
    /\ src_idx = None
    /\ out = << >>
    /\ LineIdle
    /\ RestIdle

(***************************************************************************)
(* TMXReader.__iter__: one action for each event of the XML walk           *)
(***************************************************************************)
\* start of <header srclang=...>
StartHeader ==
    /\ x_pc = "start"
    /\ \E srclang \in HeaderSrclangs :
          header_srclang' = Or(srclang, header_srclang)
    /\ x_pc' = "body"
    /\ UNCHANGED << tu_attrs, tu_properties, tuv_current, tuvs, tuv_elem, entry, src_idx, out >>
    /\ UNCHANGED << lineVars, restVars >>

\* start of <tu srclang=...>
StartTu ==
    /\ x_pc = "body"
    /\ \E srclang \in TuSrclangs :
          /\ tu_attrs' = [tuid |-> None, srclang |-> srclang, creationdate |-> None, changedate |-> None]
          /\ entry' = Some([srclang |-> srclang, variants |-> << >>])
    /\ tu_properties' = Some(P_empty)
    /\ tuvs' = << >>
    /\ src_idx' = None
    /\ out' = << >>
    /\ x_pc' = "tu"
    /\ UNCHANGED << header_srclang, tuv_current, tuv_elem >>
    /\ UNCHANGED << lineVars, restVars >>

\* start of <tuv xml:lang=... lang=...>
StartTuv ==
    /\ x_pc = "tu"
    /\ Len(Get(entry).variants) < MaxTuvs
    /\ \E e \in TuvPool :
          /\ tuv_elem' = Some(e)
          /\ tuv_current' = Some([lang |-> _get_lang(e.xml_lang, e.lang), creationdate |-> None,
                                  changedate |-> None, text |-> None])
    /\ x_pc' = "tuv"
    /\ UNCHANGED << header_srclang, tu_attrs, tu_properties, tuvs, entry, src_idx, out >>
    /\ UNCHANGED << lineVars, restVars >>

\* end of the <seg> of the <tuv>; the parser raises instead when the text of
\* the <seg> is not well-formed
EndSeg ==
    /\ x_pc = "tuv"
    /\ ~IsNone(Get(tuv_elem).seg)
    /\ IsNone(Get(tuv_current).text)
    /\ IF IsNone(ElementText(Get(Get(tuv_elem).seg)))
       THEN /\ x_pc' = "parse_error"
            /\ UNCHANGED tuv_current
       ELSE /\ tuv_current' = Some([Get(tuv_current) EXCEPT
                                      !.text = Some(_normalize_segment(Get(ElementText(Get(Get(tuv_elem).seg)))))])
            /\ UNCHANGED x_pc
    /\ UNCHANGED << header_srclang, tu_attrs, tu_properties, tuvs, tuv_elem, entry, src_idx, out >>
    /\ UNCHANGED << lineVars, restVars >>

\* whether the end of a <tuv> keeps the variant
KeepsTuv(tuv) == Truthy(tuv.lang)

\* end of <tuv>
EndTuv ==
    /\ x_pc = "tuv"
    /\ IsNone(Get(tuv_elem).seg) \/ ~IsNone(Get(tuv_current).text)
    /\ tuvs' = IF KeepsTuv(Get(tuv_current)) THEN Append(tuvs, Get(tuv_current)) ELSE tuvs
    /\ tuv_current' = None
    /\ entry' = Some([Get(entry) EXCEPT !.variants = Append(@, Get(tuv_elem))])
    /\ tuv_elem' = None
    /\ x_pc' = "tu"
    /\ UNCHANGED << header_srclang, tu_attrs, tu_properties, src_idx, out >>
    /\ UNCHANGED << lineVars, restVars >>

\* source_lang at the end of a <tu> with at least two variants
SourceLang(attrs, header, variants) ==
    LET declared == Or(attrs.srclang, header)
    IN IF Truthy(declared) THEN Get(declared) ELSE Get(variants[1].lang)

\* whether the end of a <tu> pairs its variants
PairsVariants(variants) == Len(variants) >= 2

\* end of <tu>: the source variant is chosen and popped, and one unit is
\* yielded for each variant left; a tag that does not parse ends the iteration
EndTu ==
    /\ x_pc = "tu"
    /\ IF PairsVariants(tuvs)
       THEN LET idx == SelectSource(tuvs, SourceLang(tu_attrs, header_srclang, tuvs))
                loop == YieldLoop(tuvs[idx + 1], Without(tuvs, idx), tu_attrs, tu_properties, << >>)
            IN /\ src_idx' = Some(idx)
               /\ out' = loop.records
               /\ x_pc' = IF loop.raised THEN "failed" ELSE "body"
       ELSE /\ src_idx' = None
            /\ out' = << >>
            /\ x_pc' = "body"
    /\ tu_attrs' = NoAttrs
    /\ tu_properties' = None
    /\ tuvs' = << >>
    /\ UNCHANGED << header_srclang, tuv_current, tuv_elem, entry >>
    /\ UNCHANGED << lineVars, restVars >>

\* the end of the document: no element is under the parser, nothing is yielded
EndOfFile ==
    /\ x_pc = "body"
    /\ x_pc' = "eof"
    /\ entry' = None
    /\ src_idx' = None
    /\ out' = << >>
    /\ UNCHANGED << header_srclang, tu_attrs, tu_properties, tuv_current, tuvs, tuv_elem >>
    /\ UNCHANGED << lineVars, restVars >>

XmlNext ==
    \/ StartHeader
    \/ StartTu
    \/ StartTuv
    \/ EndSeg
    \/ EndTuv
    \/ EndTu
    \/ EndOfFile

SpecXml == XmlInit /\ [][XmlNext]_vars

(***************************************************************************)
(* TMX reader: properties                                                  *)
(***************************************************************************)
\* a <tu> has just ended
Ended == x_pc \in { "body", "failed" } /\ ~IsNone(entry)

Variants == Get(entry).variants

\* a variant as the reader holds it at the end of its <tuv>: the language tag
\* string and the text
TagOf(e) == _get_lang(e.xml_lang, e.lang)
TextOf(e) == IF IsNone(e.seg) THEN None ELSE Some(_normalize_segment(Get(ElementText(Get(e.seg)))))
LanguageOf(e) == Get(from_string(TagOf(e)))

\* every variant of the entry has a tag that parses and a text that is not empty
AllUsable ==
    \A i \in 1..Len(Variants) :
        /\ ~IsNone(from_string(TagOf(Variants[i])))
        /\ Truthy(TextOf(Variants[i]))

\* the candidate source tag: declared by the entry, else by the header, else
\* the first variant's
Candidate ==
    LET declared == Or(Get(entry).srclang, header_srclang)
    IN Get(from_string(IF Truthy(declared) THEN declared ELSE TagOf(Variants[1])))

\* the variants other than the one at Python index idx, in document order
Others(idx) == SubSeq(Variants, 1, idx) \o SubSeq(Variants, idx + 2, Len(Variants))

Related(a, b) ==
    \/ LanguageEq(a, b)
    \/ is_equal_or_more_generic_than(a, b)
    \/ is_equal_or_more_generic_than(b, a)

\* C5: when the candidate source tag neither equals the tag of any variant nor
\* is more or less general than it, the first variant is the source: the
\* entry yields the units (first -> second), (first -> third), ... in order.
C5_Fallback ==
    (Ended /\ Len(Variants) >= 2 /\ AllUsable
           /\ \A i \in 1..Len(Variants) : ~Related(Candidate, LanguageOf(Variants[i]))) =>
        /\ src_idx = Some(0)
        /\ Len(out) = Len(Variants) - 1
        /\ \A k \in 1..(Len(Variants) - 1) :
              out[k].language = [source |-> LanguageOf(Variants[1]), target |-> LanguageOf(Variants[k + 1])]

C5_Witness ==
    /\ Ended
    /\ Get(entry).srclang = Some(S_en)
    /\ Len(Variants) = 3
    /\ AllUsable
    /\ TagOf(Variants[1]) = Some(S_es)
    /\ TagOf(Variants[2]) = Some(S_it)
    /\ TagOf(Variants[3]) = Some(S_fr)
    /\ Len(out) = 2
    /\ out[1].language = Direction(S_es, S_it)
    /\ out[2].language = Direction(S_es, S_fr)

\* the Python index of the first variant that satisfies P, for the claims
FirstVariant(matches) == (CHOOSE i \in matches : \A j \in matches : i <= j) - 1

ExactMatches == { i \in 1..Len(Variants) : LanguageEq(Candidate, LanguageOf(Variants[i])) }
GenericMatches == { i \in 1..Len(Variants) : is_equal_or_more_generic_than(Candidate, LanguageOf(Variants[i])) }
SpecificMatches == { i \in 1..Len(Variants) : is_equal_or_more_generic_than(LanguageOf(Variants[i]), Candidate) }

\* C6: when the canonical tag of some variant equals the canonical tag of the
\* candidate source tag, the first such variant is the source.
C6_ExactMatch ==
    (Ended /\ Len(Variants) >= 2 /\ AllUsable /\ ExactMatches # { }) =>
        src_idx = Some(FirstVariant(ExactMatches))

\* C7: when no variant matches exactly, the first variant that the candidate
\* source tag is equal to or more general than is the source.
C7_GenericMatch ==
    (Ended /\ Len(Variants) >= 2 /\ AllUsable /\ ExactMatches = { } /\ GenericMatches # { }) =>
        src_idx = Some(FirstVariant(GenericMatches))

\* C8: when neither of the first two rules finds a variant, the first variant
\* whose tag is equal to or more general than the candidate source tag is the
\* source, wherever it stands in the entry.
C8_SpecificMatch ==
    (Ended /\ Len(Variants) >= 2 /\ AllUsable /\ ExactMatches = { } /\ GenericMatches = { }
           /\ SpecificMatches # { }) =>
        src_idx = Some(FirstVariant(SpecificMatches))

\* the variants the reader kept at the end of their <tuv>, and those of them
\* that have a text
RECURSIVE Filter(_, _)
Filter(variants, keepTextless) ==
    IF Len(variants) = 0 THEN << >>
    ELSE (IF Truthy(TagOf(variants[1])) /\ (keepTextless \/ ~IsNone(TextOf(variants[1])))
          THEN << variants[1] >> ELSE << >>) \o Filter(Tail(variants), keepTextless)

\* C9: a variant without a language tag or without a text is dropped before
\* the source is chosen and does not count toward the two variants an entry
\* needs: an entry left with fewer than two variants yields nothing and does
\* not stop the read, and an entry left with N >= 2 variants yields N - 1 units.
C9_VariantFiltering ==
    Ended =>
        LET usable == Filter(Variants, FALSE)
        IN /\ Len(usable) < 2 => (out = << >> /\ x_pc = "body")
           /\ (/\ Len(usable) >= 2
               /\ \A i \in 1..Len(usable) :
                     ~IsNone(from_string(TagOf(usable[i]))) /\ Truthy(TextOf(usable[i])))
              => (Len(out) = Len(usable) - 1 /\ x_pc = "body")

\* C10: no unit the reader yields has an empty sentence or an empty translation.
C10_NoEmptyText ==
    \A k \in 1..Len(out) : out[k].sentence # << >> /\ out[k].translation # << >>

\* C11: when a variant of an entry carries a language tag that does not parse,
\* the iteration fails at that entry: the variant is never skipped in silence.
C11_InvalidTagFails ==
    (Ended /\ \E i \in 1..Len(Variants) :
                 Truthy(TagOf(Variants[i])) /\ IsNone(from_string(TagOf(Variants[i])))) =>
        x_pc = "failed"

(***************************************************************************)
(* TMXWriter: the lines it writes                                          *)
(***************************************************************************)
\* one line of the file: the markup the writer's format string fixes (k) and
\* the escaped text it puts in it
Line(k) ==
    [k |-> k, tuid |-> None, srclang |-> None, creationdate |-> None, changedate |-> None,
     type |-> None, lang |-> None, text |-> None]

OptEscape(o) == IF IsNone(o) THEN None ELSE Some(_attr_escape(Get(o)))

\* TMXWriter._lang_tuple: the two tags of direction.to_json()
_lang_tuple(direction) == << direction.source.tag, direction.target.tag >>

\* the <prop> lines of one key, one for each of its values
PropLinesOfKey(properties, key) ==
    LET vals == IF IsNone(values(properties, key)) THEN << >> ELSE Get(values(properties, key))
    IN [i \in 1..Len(vals) |->
          [Line("prop") EXCEPT !.type = Some(_attr_escape(key)), !.text = Some(xml_escape(vals[i]))]]

\* the <prop> lines of a Properties, key after key; none for None
RECURSIVE PropLinesFrom(_, _)
PropLinesFrom(properties, i) ==
    IF i > size(properties) THEN << >>
    ELSE PropLinesOfKey(properties, keys(properties)[i]) \o PropLinesFrom(properties, i + 1)

PropLines(properties) == IF IsNone(properties) THEN << >> ELSE PropLinesFrom(Get(properties), 1)

\* TMXWriter._write_header(srclang): the lines it writes, in order
HeaderLines(srclang, header_properties) ==
    << Line("prolog"), Line("tmx"),
       [Line("header") EXCEPT !.srclang = IF Truthy(srclang) THEN OptEscape(srclang) ELSE None] >>
    \o PropLines(header_properties)
    \o << Line("header_end"), Line("body") >>

\* TMXWriter._write_tuv(lang, segment)
TuvLine(lang, segment) ==
    [Line("tuv") EXCEPT !.lang = Some(_attr_escape(lang)),
                        !.text = Some(xml_escape(_normalize_segment(segment)))]

\* TMXWriter.write(tu) after the header: the lines of the <tu>, in order
TuLines(tu) ==
    << [Line("tu") EXCEPT !.tuid = OptEscape(tu.tuid),
                          !.srclang = IF Len(_lang_tuple(tu.language)[1]) > 0
                                      THEN Some(_attr_escape(_lang_tuple(tu.language)[1])) ELSE None,
                          !.creationdate = OptEscape(tu.creation_date),
                          !.changedate = OptEscape(tu.change_date)] >>
    \o PropLines(tu.properties)
    \o << TuvLine(_lang_tuple(tu.language)[1], tu.sentence),
          TuvLine(_lang_tuple(tu.language)[2], tu.translation),
          Line("tu_end") >>

\* the closing tags of TMXWriter.__exit__
ClosingLines == << Line("close") >>

\* whether the file's encoder takes the line
OptEncodable(o) == IsNone(o) \/ Encodable(Get(o))
LineEncodable(line) ==
    /\ OptEncodable(line.tuid) /\ OptEncodable(line.srclang) /\ OptEncodable(line.creationdate)
    /\ OptEncodable(line.changedate) /\ OptEncodable(line.type) /\ OptEncodable(line.lang)
    /\ OptEncodable(line.text)

\* the lines that reach the file when a run of self._file.write calls is made:
\* those before the first one the encoder raises on
WrittenLines(lines) ==
    IF \A i \in 1..Len(lines) : LineEncodable(lines[i]) THEN lines
    ELSE SubSeq(lines, 1, (CHOOSE i \in 1..Len(lines) :
                              ~LineEncodable(lines[i]) /\ \A j \in 1..(i - 1) : LineEncodable(lines[j])) - 1)

(***************************************************************************)
(* TMXReader on a file of such lines                                       *)
(***************************************************************************)
\* whether the parser takes the text of the line
OptDecodes(o, attr) == IsNone(o) \/ ~IsNone(XmlDecode(Get(o), 1, attr, << >>))
LineWellFormed(line) ==
    /\ OptDecodes(line.tuid, TRUE) /\ OptDecodes(line.srclang, TRUE) /\ OptDecodes(line.creationdate, TRUE)
    /\ OptDecodes(line.changedate, TRUE) /\ OptDecodes(line.type, TRUE) /\ OptDecodes(line.lang, TRUE)
    /\ OptDecodes(line.text, FALSE)

\* elem.attrib.get(name): None when the attribute is not there
Attribute(o) == IF IsNone(o) THEN None ELSE AttributeValue(Get(o))

\* the end of a <tu> in TMXReader.__iter__: the units it yields and whether
\* the iteration raised
EndOfTu(attrs, header, variants, properties) ==
    IF PairsVariants(variants)
    THEN LET idx == SelectSource(variants, SourceLang(attrs, header, variants))
         IN YieldLoop(variants[idx + 1], Without(variants, idx), attrs, properties, << >>)
    ELSE [records |-> << >>, raised |-> FALSE]

\* the locals of TMXReader.__iter__ before the first event
ReaderStart ==
    [mode |-> "start", header_srclang |-> None, tu_attrs |-> NoAttrs, tu_properties |-> None,
     tuvs |-> << >>, records |-> << >>]

\* TMXReader.__iter__ from line i on: the units yielded, and whether the
\* iteration raised (the parser on markup that is not well-formed, or
\* LanguageDirection.from_tuple on a tag)
RECURSIVE ReadFrom(_, _, _)
ReadFrom(lines, i, st) ==
    IF i > Len(lines) THEN [records |-> st.records, raised |-> st.mode # "end"]
    ELSE LET l == lines[i]
             fail == [records |-> st.records, raised |-> TRUE]
         IN IF ~LineWellFormed(l) THEN fail
            ELSE IF st.mode = "start" /\ l.k = "prolog" THEN ReadFrom(lines, i + 1, [st EXCEPT !.mode = "prolog"])
            ELSE IF st.mode = "prolog" /\ l.k = "tmx" THEN ReadFrom(lines, i + 1, [st EXCEPT !.mode = "root"])
            ELSE IF st.mode = "root" /\ l.k = "header"
            THEN ReadFrom(lines, i + 1, [st EXCEPT !.mode = "header",
                                                   !.header_srclang = Or(Attribute(l.srclang), st.header_srclang)])
            ELSE IF st.mode = "header" /\ l.k = "prop" THEN ReadFrom(lines, i + 1, st)
            ELSE IF st.mode = "header" /\ l.k = "header_end"
            THEN ReadFrom(lines, i + 1, [st EXCEPT !.mode = "afterheader"])
            ELSE IF st.mode = "afterheader" /\ l.k = "body" THEN ReadFrom(lines, i + 1, [st EXCEPT !.mode = "body"])
            ELSE IF st.mode = "body" /\ l.k = "close" THEN ReadFrom(lines, i + 1, [st EXCEPT !.mode = "end"])
            ELSE IF st.mode = "body" /\ l.k = "tu"
            THEN ReadFrom(lines, i + 1,
                     [st EXCEPT !.mode = "tu",
                                !.tu_attrs = [tuid |-> Attribute(l.tuid), srclang |-> Attribute(l.srclang),
                                              creationdate |-> Attribute(l.creationdate),
                                              changedate |-> Attribute(l.changedate)],
                                !.tu_properties = Some(P_empty),
                                !.tuvs = << >>])
            ELSE IF st.mode = "tu" /\ l.k = "prop"
            THEN ReadFrom(lines, i + 1,
                     IF Truthy(Attribute(l.type))
                     THEN [st EXCEPT !.tu_properties =
                               Some(put(Get(st.tu_properties), Get(Attribute(l.type)), Get(ElementText(Get(l.text)))))]
                     ELSE st)
            ELSE IF st.mode = "tu" /\ l.k = "tuv"
            THEN LET tuv == [lang |-> _get_lang(Attribute(l.lang), None), creationdate |-> None,
                             changedate |-> None,
                             text |-> Some(_normalize_segment(Get(ElementText(Get(l.text)))))]
                 IN ReadFrom(lines, i + 1,
                        IF KeepsTuv(tuv) THEN [st EXCEPT !.tuvs = Append(@, tuv)] ELSE st)
            ELSE IF st.mode = "tu" /\ l.k = "tu_end"
            THEN LET end == EndOfTu(st.tu_attrs, st.header_srclang, st.tuvs, st.tu_properties)
                 IN IF end.raised THEN [records |-> st.records \o end.records, raised |-> TRUE]
                    ELSE ReadFrom(lines, i + 1,
                             [st EXCEPT !.mode = "body", !.records = @ \o end.records,
                                        !.tu_attrs = NoAttrs, !.tu_properties = None, !.tuvs = << >>])
            ELSE fail

\* TestCorpus._read on the file
ReadTmx(lines) == ReadFrom(lines, 1, ReaderStart)

(***************************************************************************)
(* The TMX writer scenario: one writer scope, then a read of the file      *)
(***************************************************************************)
P_list == [kind |-> "Properties", map |-> << << << "k" >>, JList(<< JStr(<< "a" >>), JStr(<< "b" >>) >>) >> >>]
P_single_list == [kind |-> "Properties", map |-> << << << "k" >>, JList(<< JStr(<< "a" >>) >>) >> >>]
P_unencodable == [kind |-> "Properties", map |-> << << << "k" >>, JStr(<< LoneSurrogate >>) >> >>]

\* the units a caller writes: plain text, markup characters with an id, dates
\* and a property, a line break with a list of property values, a list of one
\* property value, and text the file cannot encode
TmxPool ==
    { TranslationUnit(Direction(S_en, S_fr), << "H", "i" >>, << "S", "a" >>, None, None, None, None),
      TranslationUnit(Direction(S_en_US, S_fr), << "<", Amp, ">" >>, << Quote, "x" >>,
                      Some(<< "7", Quote >>), Some(<< "2", "0" >>), Some(<< "2", "1" >>), Some(P_note)),
      TranslationUnit(Direction(S_en, S_fr), << "a", "\n", "b" >>, << "c" >>, None, None, None, Some(P_list)),
      TranslationUnit(Direction(S_fr, S_it), << "u" >>, << "v" >>, None, None, None, Some(P_single_list)),
      TranslationUnit(Direction(S_it, S_en), << "y" >>, << "x", LoneSurrogate >>, None, None, None, None) }

\* the header properties a caller hands to TMXCorpus.writer
TmxHeaderChoices == { None, Some(P_note), Some(P_unencodable) }

TmxInit ==
    /\ t_disk = None
    /\ t_file = "none"
    /\ t_header_written = FALSE
    /\ t_header_properties \in TmxHeaderChoices
    /\ t_tus \in SeqsUpTo(TmxPool, MaxRecords)
    /\ t_i = 1
    /\ t_pc = "start"
    /\ t_exc = "none"
    /\ t_units = << >>
    /\ t_err = FALSE
    /\ LineIdle
    /\ XmlIdle
    /\ LangIdle
    /\ PropsIdle
    /\ PairIdle
    /\ NameIdle
    /\ PairReaderIdle
    /\ CallIdle
    /\ FacadeIdle
    /\ TailIdle
    /\ SubtagIdle
    /\ HeapIdle
    /\ EventIdle
    /\ RefilterIdle
    /\ RewriteIdle
    /\ ReuseIdle
    /\ ActivityIdle
    /\ ApplyIdle

\* TMXWriter.__enter__: open(path, 'w') creates or truncates the file
TmxWriterEnter ==
    /\ t_pc = "start"
    /\ t_disk' = Some(<< >>)
    /\ t_file' = "open"
    /\ t_pc' = "writing"
    /\ UNCHANGED << t_header_written, t_header_properties, t_tus, t_i, t_exc, t_units, t_err >>
    /\ UNCHANGED notTmxVars

\* the lines TMXWriter.write(tu) hands to the file, the header first when it
\* has not been written
WriteLines(tu, header_written, header_properties) ==
    (IF header_written THEN << >> ELSE HeaderLines(Some(_lang_tuple(tu.language)[1]), header_properties))
    \o TuLines(tu)

\* whether _write_header ran to its last statement within these written lines
HeaderCompleted(written) == \E i \in 1..Len(written) : written[i].k = "body"

\* TMXWriter.write(t_tus[t_i]): line after line, until the file's encoder raises
TmxWriterWrite ==
    /\ t_pc = "writing"
    /\ t_i <= Len(t_tus)
    /\ LET lines == WriteLines(t_tus[t_i], t_header_written, t_header_properties)
           written == WrittenLines(lines)
       IN /\ t_disk' = Some(Get(t_disk) \o written)
          /\ t_header_written' = (t_header_written \/ HeaderCompleted(written))
          /\ IF written = lines
             THEN /\ t_i' = t_i + 1
                  /\ UNCHANGED << t_pc, t_exc >>
             ELSE /\ t_pc' = "raising"
                  /\ t_exc' = "write"
                  /\ UNCHANGED t_i
    /\ UNCHANGED << t_file, t_header_properties, t_tus, t_units, t_err >>
    /\ UNCHANGED notTmxVars

\* a statement of the scope body other than write raises
TmxBodyRaise ==
    /\ t_pc = "writing"
    /\ t_pc' = "raising"
    /\ t_exc' = "body"
    /\ UNCHANGED << t_disk, t_file, t_header_written, t_header_properties, t_tus, t_i, t_units, t_err >>
    /\ UNCHANGED notTmxVars

\* the lines TMXWriter.__exit__ hands to the file
ExitLines(header_written, header_properties) ==
    (IF header_written THEN << >> ELSE HeaderLines(None, header_properties)) \o ClosingLines

\* TMXWriter.__exit__, at the end of the body or on its exception: the header
\* if it is not written yet, the closing tags, the close of the file; when the
\* encoder raises in it the file is left open
TmxWriterExit ==
    /\ \/ t_pc = "writing" /\ t_i > Len(t_tus)
       \/ t_pc = "raising"
    /\ LET lines == ExitLines(t_header_written, t_header_properties)
           written == WrittenLines(lines)
       IN /\ t_disk' = Some(Get(t_disk) \o written)
          /\ t_header_written' = (t_header_written \/ HeaderCompleted(written))
          /\ IF written = lines
             THEN t_file' = "closed" /\ UNCHANGED t_exc
             ELSE t_exc' = "exit" /\ UNCHANGED t_file
    /\ t_pc' = "closed"
    /\ UNCHANGED << t_header_properties, t_tus, t_i, t_units, t_err >>
    /\ UNCHANGED notTmxVars

\* TestCorpus._read: a reader scope over the file
TmxRead ==
    /\ t_pc = "closed"
    /\ t_units' = ReadTmx(Get(t_disk)).records
    /\ t_err' = ReadTmx(Get(t_disk)).raised
    /\ t_pc' = "done"
    /\ UNCHANGED << t_disk, t_file, t_header_written, t_header_properties, t_tus, t_i, t_exc >>
    /\ UNCHANGED notTmxVars

TmxNext ==
    \/ TmxWriterEnter
    \/ TmxWriterWrite
    \/ TmxBodyRaise
    \/ TmxWriterExit
    \/ TmxRead

SpecTmx == TmxInit /\ [][TmxNext]_vars

(***************************************************************************)
(* The TMX writer scenario: properties                                     *)
(***************************************************************************)
\* the writer scope has been left
TmxScopeLeft == t_pc \in { "closed", "done" }

\* the positions of the lines of one kind
LinesOfKind(lines, k) == { i \in 1..Len(lines) : lines[i].k = k }

\* the entries of the file are whole: every <tu> line is followed by its
\* <prop> lines, two <tuv> lines and the </tu> line
WholeEntries(lines) ==
    /\ \A i \in LinesOfKind(lines, "tu") :
          \E j \in LinesOfKind(lines, "tu_end") :
             /\ i < j
             /\ Cardinality({ n \in (i + 1)..(j - 1) : lines[n].k = "tuv" }) = 2
             /\ \A n \in (i + 1)..(j - 1) : lines[n].k \in { "prop", "tuv" }
    /\ Cardinality(LinesOfKind(lines, "tu")) = Cardinality(LinesOfKind(lines, "tu_end"))

\* whether the scope reached a call of write
WriteCalled == t_i > 1 \/ t_exc = "write"

\* C12: when the writer scope is left, also on an exception, the file holds
\* the prolog, the root, one header, the opening of the body, whole entries
\* and the closing tags, in this order and each once; the header carries the
\* source tag of the first unit written, or none when nothing was written.
C12_WriterOrdering ==
    TmxScopeLeft =>
        LET lines == Get(t_disk)
        IN /\ t_file = "closed"
           /\ Len(lines) >= 6
           /\ lines[1].k = "prolog" /\ lines[2].k = "tmx" /\ lines[3].k = "header"
           /\ lines[Len(lines)].k = "close"
           /\ \A k \in { "prolog", "tmx", "header", "header_end", "body", "close" } :
                 Cardinality(LinesOfKind(lines, k)) = 1
           /\ \A i \in LinesOfKind(lines, "header_end"), j \in LinesOfKind(lines, "body") :
                 /\ j = i + 1
                 /\ \A n \in 4..(i - 1) : lines[n].k = "prop"
                 /\ \A n \in (j + 1)..(Len(lines) - 1) : lines[n].k \in { "tu", "prop", "tuv", "tu_end" }
           /\ WholeEntries(lines)
           /\ lines[3].srclang = IF WriteCalled THEN Some(_lang_tuple(t_tus[1].language)[1]) ELSE None

\* the same, for the scopes in which the file's encoder never raised
C12_WhenEncodable ==
    (TmxScopeLeft /\ t_exc \in { "none", "body" }) => C12_WriterOrdering

\* C13: the units written through one writer scope that ends normally are
\* read back from the file in the same number and order, each equal to the
\* unit written (direction, sentence, translation, id and dates).
C13_TmxRoundTrip ==
    (t_pc = "done" /\ t_exc = "none") =>
        /\ ~t_err
        /\ Len(t_units) = Len(t_tus)
        /\ \A k \in 1..Len(t_tus) : TuEq(t_units[k], t_tus[k])

\* the same, for units whose texts _normalize_segment leaves as they are
C13_WhenNormalized ==
    (/\ t_pc = "done" /\ t_exc = "none"
     /\ \A k \in 1..Len(t_tus) : /\ _normalize_segment(t_tus[k].sentence) = t_tus[k].sentence
                                 /\ _normalize_segment(t_tus[k].translation) = t_tus[k].translation)
    => C13_TmxRoundTrip

\* C14: a unit written with properties is read back with properties equal to
\* them: the same keys, each with the same single value or the same list of
\* values in the same order.
C14_PropertiesRoundTrip ==
    (t_pc = "done" /\ t_exc = "none" /\ ~t_err /\ Len(t_units) = Len(t_tus)) =>
        \A k \in 1..Len(t_tus) :
            ~IsNone(t_tus[k].properties) =>
                /\ ~IsNone(t_units[k].properties)
                /\ PropertiesEq(Get(t_units[k].properties), Get(t_tus[k].properties))

\* the same, for properties in which no key holds a list of fewer than two values
C14_WhenPutBuilt ==
    (\A k \in 1..Len(t_tus) :
        ~IsNone(t_tus[k].properties) =>
            \A i \in 1..size(Get(t_tus[k].properties)) :
                LET v == Get(t_tus[k].properties).map[i][2] IN v.t = "a" => Len(v.v) >= 2)
    => C14_PropertiesRoundTrip

\* C15: the reader does not fail on a <seg> that holds a character XML does
\* not permit, written raw or as a numeric character reference; it yields
\* the unit with the character removed or blanked.
C15_ReaderSanitizes ==
    (/\ ~IsNone(tuv_elem)
     /\ ~IsNone(Get(tuv_elem).seg)
     /\ \/ \E i \in 1..Len(Get(Get(tuv_elem).seg)) : ~IsXmlChar(Get(Get(tuv_elem).seg)[i])
        \/ Get(Get(tuv_elem).seg) = << Amp >> \o RefFormFeed \o << Semicolon >>)
    => x_pc # "parse_error"

\* the number of line breaks in a text
LineBreaks(s) == Cardinality({ i \in 1..Len(s) : s[i] = "\n" })

\* C16: a line break inside a <seg> is kept by the reader: the text it holds
\* for the variant has the line breaks of the <seg>, none turned into a space.
C16_LineBreaksPreserved ==
    (x_pc = "tuv" /\ ~IsNone(tuv_current) /\ ~IsNone(Get(tuv_current).text)) =>
        LineBreaks(Get(Get(tuv_current).text)) = LineBreaks(strip(Get(ElementText(Get(Get(tuv_elem).seg)))))

(***************************************************************************)
(* The language tag scenario: strings are parsed, and the tags of the      *)
(* Languages are parsed again                                              *)
(***************************************************************************)
MaxTags == 3

\* the strings a caller parses: one language in several spellings of
\* separator and case, with script, region, a numeric region and further
\* subtags, other languages, and strings that do not parse
TagStrings ==
    { S_en,
      << "E", "N" >>,
      S_en_US,
      S_en_us,
      << "e", "n", "-", "L", "a", "t", "n" >>,
      << "e", "n", "-", "L", "a", "t", "n", "-", "U", "S" >>,
      << "E", "N", "_", "l", "a", "t", "n", "_", "u", "s" >>,
      << "e", "n", "-", "x" >>,
      << "e", "n", "-", "x", "-", "u", "s" >>,
      << "e", "n", "-", "x", "-", "U", "S" >>,
      << "e", "s", "-", "4", "1", "9" >>,
      S_it,
      S_Italian }

RECURSIVE TuplesOf(_, _)
TuplesOf(S, n) ==
    IF n = 0 THEN { << >> }
    ELSE { Append(q, x) : q \in TuplesOf(S, n - 1), x \in S }

LangInit ==
    /\ g_in \in TuplesOf(TagStrings, MaxTags)
    /\ g_tags = << >>
    /\ g_re = << >>
    /\ LineIdle
    /\ XmlIdle
    /\ TmxIdle
    /\ PropsIdle
    /\ PairIdle
    /\ NameIdle
    /\ PairReaderIdle
    /\ CallIdle
    /\ FacadeIdle
    /\ TailIdle
    /\ SubtagIdle
    /\ HeapIdle
    /\ EventIdle
    /\ RefilterIdle
    /\ RewriteIdle
    /\ ReuseIdle
    /\ ActivityIdle
    /\ ApplyIdle

\* Language.from_string on the next string
LangParse ==
    /\ Len(g_tags) < Len(g_in)
    /\ g_tags' = Append(g_tags, from_string(Some(g_in[Len(g_tags) + 1])))
    /\ UNCHANGED << g_in, g_re >>
    /\ UNCHANGED notLangVars

\* Language.from_string on the tag of the next Language; None stands where
\* there is no Language to take the tag of
LangReparse ==
    /\ Len(g_re) < Len(g_tags)
    /\ g_re' = Append(g_re, IF IsNone(g_tags[Len(g_re) + 1]) THEN None
                            ELSE from_string(Some(Get(g_tags[Len(g_re) + 1]).tag)))
    /\ UNCHANGED << g_in, g_tags >>
    /\ UNCHANGED notLangVars

LangNext ==
    \/ LangParse
    \/ LangReparse

SpecLang == LangInit /\ [][LangNext]_vars

(***************************************************************************)
(* The language tag scenario: properties                                   *)
(***************************************************************************)
\* the subtags of a string, and how many of them from_string took as the
\* language, the script and the region
Subtags(string) == split(replace(string, "_", "-"), "-")
Recognized(language) ==
    1 + (IF IsNone(language.script) THEN 0 ELSE 1) + (IF IsNone(language.region) THEN 0 ELSE 1)

\* two strings that parse and differ at most in the separator and in the
\* letter case of the language, script and region subtags
SameButSpelling(a, b) ==
    LET la == from_string(Some(a))
        lb == from_string(Some(b))
    IN /\ ~IsNone(la) /\ ~IsNone(lb)
       /\ Len(Subtags(a)) = Len(Subtags(b))
       /\ Recognized(Get(la)) = Recognized(Get(lb))
       /\ \A i \in 1..Len(Subtags(a)) :
             IF i <= Recognized(Get(la)) THEN lower(Subtags(a)[i]) = lower(Subtags(b)[i])
             ELSE Subtags(a)[i] = Subtags(b)[i]

\* C17: the tag of a parsed Language parses to an equal Language (the same
\* tag, code, script and region), and strings that differ only in separator
\* or in the letter case of the language, script and region subtags parse to
\* equal Languages with equal hashes.
C17_TagIdempotence ==
    /\ \A k \in 1..Len(g_re) :
          ~IsNone(g_tags[k]) => (~IsNone(g_re[k]) /\ Get(g_re[k]) = Get(g_tags[k]))
    /\ \A i, j \in 1..Len(g_tags) :
          SameButSpelling(g_in[i], g_in[j]) =>
              /\ LanguageEq(Get(g_tags[i]), Get(g_tags[j]))
              /\ LanguageHash(Get(g_tags[i])) = LanguageHash(Get(g_tags[j]))

C17_Witness ==
    /\ Len(g_re) >= 2
    /\ g_in[1] # g_in[2]
    /\ SameButSpelling(g_in[1], g_in[2])
    /\ ~IsNone(Get(g_tags[1]).script) /\ ~IsNone(Get(g_tags[1]).region)
    /\ Get(g_tags[1]).tag # g_in[1]
    /\ Get(g_re[1]) = Get(g_tags[1])
    /\ LanguageEq(Get(g_tags[1]), Get(g_tags[2]))

\* the Languages parsed so far
Parsed == { Get(g_tags[k]) : k \in { n \in 1..Len(g_tags) : ~IsNone(g_tags[n]) } }

\* C18: is_equal_or_more_generic_than is a partial order on Languages:
\* reflexive, transitive, and antisymmetric (two Languages each equal to or
\* more generic than the other are equal).
C18_PartialOrder ==
    /\ \A a \in Parsed : is_equal_or_more_generic_than(a, a)
    /\ \A a, b, c \in Parsed :
          (is_equal_or_more_generic_than(a, b) /\ is_equal_or_more_generic_than(b, c))
              => is_equal_or_more_generic_than(a, c)
    /\ \A a, b \in Parsed :
          (is_equal_or_more_generic_than(a, b) /\ is_equal_or_more_generic_than(b, a))
              => LanguageEq(a, b)

\* the relation is reflexive and transitive, and en is equal to or more
\* generic than en-US but not the other way round
C18_Preorder ==
    /\ \A a \in Parsed : is_equal_or_more_generic_than(a, a)
    /\ \A a, b, c \in Parsed :
          (is_equal_or_more_generic_than(a, b) /\ is_equal_or_more_generic_than(b, c))
              => is_equal_or_more_generic_than(a, c)
    /\ \A a, b \in Parsed :
          (a.tag = S_en /\ b.tag = S_en_US) =>
              (is_equal_or_more_generic_than(a, b) /\ ~is_equal_or_more_generic_than(b, a))

(***************************************************************************)
(* The Properties scenario: put, set and remove on one Properties          *)
(***************************************************************************)
MaxValues == 3

PropKeys == { << "k" >>, << "j" >> }
PropValues == { << "a" >>, << "b" >>, << >> }

\* the calls made on a key since it was last absent: no call, put calls
\* only, a set, or put calls after a set; with the values they were given
NoCalls == [kind |-> "absent", vals |-> << >>]

PropsInit ==
    /\ p_props = P_empty
    /\ p_calls = [key \in PropKeys |-> NoCalls]
    /\ LineIdle
    /\ XmlIdle
    /\ TmxIdle
    /\ LangIdle
    /\ PairIdle
    /\ NameIdle
    /\ PairReaderIdle
    /\ CallIdle
    /\ FacadeIdle
    /\ TailIdle
    /\ SubtagIdle
    /\ HeapIdle
    /\ EventIdle
    /\ RefilterIdle
    /\ RewriteIdle
    /\ ReuseIdle
    /\ ActivityIdle
    /\ ApplyIdle

\* Properties.put(key, v)
PropsPut ==
    \E key \in PropKeys, v \in PropValues :
        /\ Len(p_calls[key].vals) < MaxValues
        /\ p_props' = put(p_props, key, v)
        /\ p_calls' = [p_calls EXCEPT ![key] =
                          [kind |-> IF @.kind \in { "absent", "puts" } THEN "puts" ELSE "set_puts",
                           vals |-> Append(@.vals, v)]]
        /\ UNCHANGED notPropVars

\* Properties.set(key, x)
PropsSet ==
    \E key \in PropKeys, x \in PropValues :
        /\ p_props' = set(p_props, key, JStr(x))
        /\ p_calls' = [p_calls EXCEPT ![key] = [kind |-> "set", vals |-> << x >>]]
        /\ UNCHANGED notPropVars

\* Properties.remove(key)
PropsRemove ==
    \E key \in PropKeys :
        /\ p_props' = remove(p_props, key)
        /\ p_calls' = [p_calls EXCEPT ![key] = NoCalls]
        /\ UNCHANGED notPropVars

PropsNext ==
    \/ PropsPut
    \/ PropsSet
    \/ PropsRemove

SpecProps == PropsInit /\ [][PropsNext]_vars

\* C19: after put calls on a key that was absent, values(key) is the list of
\* the values put, in call order, and value(key) the first of them; get(key)
\* is a single value exactly when one put was made; after set(key, x),
\* value(key) is x and values(key) is [x]; after remove(key) the key is absent.
C19_PutSetRemove ==
    \A key \in PropKeys :
        /\ p_calls[key].kind = "puts" =>
              /\ values(p_props, key) = Some(p_calls[key].vals)
              /\ value(p_props, key) = Some(p_calls[key].vals[1])
              /\ (Get(get(p_props, key)).t = "s") <=> (Len(p_calls[key].vals) = 1)
        /\ p_calls[key].kind = "set" =>
              /\ value(p_props, key) = Some(p_calls[key].vals[1])
              /\ values(p_props, key) = Some(<< p_calls[key].vals[1] >>)
        /\ p_calls[key].kind = "absent" =>
              /\ ~has(p_props, key)
              /\ IsNone(get(p_props, key))
              /\ IsNone(values(p_props, key))

C19_Witness ==
    /\ p_calls[<< "k" >>].kind = "puts"
    /\ values(p_props, << "k" >>) = Some(<< << "a" >>, << "b" >> >>)
    /\ Get(get(p_props, << "k" >>)).t = "a"
    /\ p_calls[<< "j" >>].kind = "set"
    /\ values(p_props, << "j" >>) = Some(<< << "b" >> >>)
    /\ keys(p_props) = << << "j" >>, << "k" >> >>

(***************************************************************************)
(* ParallelCorpus: one plain text file per language, one line per unit     *)
(***************************************************************************)

\* ParallelCorpusWriter._normalize: line feeds become spaces, then strip()
_normalize(text) == strip(replace(text, "\n", " "))

\* the language direction ParallelCorpus takes from the two file extensions
PairLanguage == Direction(S_en, S_fr)

\* ParallelCorpusReader.__iter__: the two files are read line by line in step,
\* up to the end of the shorter one, and each line is stripped
ReadPair(source, target) ==
    LET src_lines == SplitLines(source)
        tgt_lines == SplitLines(target)
        n == IF Len(src_lines) <= Len(tgt_lines) THEN Len(src_lines) ELSE Len(tgt_lines)
    IN [k \in 1..n |->
           TranslationUnit(PairLanguage, strip(src_lines[k]), strip(tgt_lines[k]), None, None, None, None)]

\* the units a caller writes: plain text, text with a line feed and outer
\* spaces, text with a carriage return, and text the file cannot encode
PairPool ==
    { TranslationUnit(PairLanguage, << "H", "i" >>, << "S", "a" >>, None, None, None, None),
      TranslationUnit(PairLanguage, << "a", "\n", "b" >>, << " ", "c", " " >>, None, None, None, None),
      TranslationUnit(PairLanguage, << "a", "\r", "b" >>, << "X" >>, None, None, None, None),
      TranslationUnit(PairLanguage, << "q" >>, << "y", LoneSurrogate >>, None, None, None, None) }

PairInit ==
    /\ pp_source = << >>
    /\ pp_target = << >>
    /\ pp_tus \in SeqsUpTo(PairPool, MaxRecords)
    /\ pp_i = 1
    /\ pp_pc = "start"
    /\ pp_exc = "none"
    /\ pp_units = << >>
    /\ LineIdle
    /\ XmlIdle
    /\ TmxIdle
    /\ LangIdle
    /\ PropsIdle
    /\ NameIdle
    /\ PairReaderIdle
    /\ CallIdle
    /\ FacadeIdle
    /\ TailIdle
    /\ SubtagIdle
    /\ HeapIdle
    /\ EventIdle
    /\ RefilterIdle
    /\ RewriteIdle
    /\ ReuseIdle
    /\ ActivityIdle
    /\ ApplyIdle

\* ParallelCorpusWriter.__enter__: both files are opened for writing, which empties them
PairWriterEnter ==
    /\ pp_pc = "start"
    /\ pp_source' = << >>
    /\ pp_target' = << >>
    /\ pp_pc' = "writing"
    /\ UNCHANGED << pp_tus, pp_i, pp_exc, pp_units >>
    /\ UNCHANGED notPairVars

\* ParallelCorpusWriter.write: the source line, then the target line; a text
\* the encoder refuses raises before its line is written
PairWriterWrite ==
    /\ pp_pc = "writing"
    /\ pp_i <= Len(pp_tus)
    /\ LET tu == pp_tus[pp_i]
           src_line == _normalize(tu.sentence) \o << "\n" >>
           tgt_line == _normalize(tu.translation) \o << "\n" >>
       IN IF ~Encodable(src_line)
          THEN /\ pp_exc' = "UnicodeEncodeError"
               /\ pp_pc' = "raised"
               /\ UNCHANGED << pp_source, pp_target, pp_i >>
          ELSE /\ pp_source' = pp_source \o src_line
               /\ IF ~Encodable(tgt_line)
                  THEN /\ pp_exc' = "UnicodeEncodeError"
                       /\ pp_pc' = "raised"
                       /\ UNCHANGED << pp_target, pp_i >>
                  ELSE /\ pp_target' = pp_target \o tgt_line
                       /\ pp_i' = pp_i + 1
                       /\ UNCHANGED << pp_exc, pp_pc >>
    /\ UNCHANGED << pp_tus, pp_units >>
    /\ UNCHANGED notPairVars

\* ParallelCorpusWriter.__exit__: both files are closed, after the last write
\* or on the way out of a write that raised
PairWriterExit ==
    /\ \/ pp_pc = "writing" /\ pp_i > Len(pp_tus)
       \/ pp_pc = "raised"
    /\ pp_pc' = "closed"
    /\ UNCHANGED << pp_source, pp_target, pp_tus, pp_i, pp_exc, pp_units >>
    /\ UNCHANGED notPairVars

\* a ParallelCorpusReader scope over the two files, iterated to the end
PairRead ==
    /\ pp_pc = "closed"
    /\ pp_units' = ReadPair(pp_source, pp_target)
    /\ pp_pc' = "done"
    /\ UNCHANGED << pp_source, pp_target, pp_tus, pp_i, pp_exc >>
    /\ UNCHANGED notPairVars

PairNext ==
    \/ PairWriterEnter
    \/ PairWriterWrite
    \/ PairWriterExit
    \/ PairRead

SpecPair == PairInit /\ [][PairNext]_vars

\* the writer scope was left after every write returned
PairScopeLeft == pp_pc \in { "closed", "done" } /\ pp_exc = "none"

\* C20: once a writer scope in which n writes were made is left, each of the
\* two files holds exactly n lines, and a reader on them yields exactly n
\* units, the i-th with the normalized sentence and translation of the i-th
\* unit written.
C20_PairAlignment ==
    PairScopeLeft =>
        /\ Len(SplitLines(pp_source)) = Len(pp_tus)
        /\ Len(SplitLines(pp_target)) = Len(pp_tus)
        /\ pp_pc = "done" =>
              /\ Len(pp_units) = Len(pp_tus)
              /\ \A k \in 1..Len(pp_units) :
                    /\ pp_units[k].sentence = _normalize(pp_tus[k].sentence)
                    /\ pp_units[k].translation = _normalize(pp_tus[k].translation)

\* the same, for units whose texts hold no carriage return
NoCarriageReturn(text) == \A k \in 1..Len(text) : text[k] # "\r"

C20_WhenNoCarriageReturn ==
    (\A k \in 1..Len(pp_tus) : NoCarriageReturn(pp_tus[k].sentence) /\ NoCarriageReturn(pp_tus[k].translation))
        => C20_PairAlignment

(***************************************************************************)
(* A line-format file as it is found on disk: a reader and a corpus handle *)
(* on a file that some writer, or something else, left there               *)
(***************************************************************************)
MaxLines == 3

FileTu == TranslationUnit(Direction(S_en, S_fr), << "H", "i" >>, << "S", "a" >>, None, None, None, None)

\* the lines such a file is made of: a record, a footer, a line that begins
\* with the footer marker and holds no footer, an empty line, a line that is
\* no JSON, a record without its sentence, and a record cut before its end
FileLinePool ==
    { RecordLine(FileTu),
      FooterLine(<< << FileTu.language, 1 >> >>, None),
      FOOTER_LINE_BEGIN \o << "[", "]", "\n" >>,
      << "\n" >>,
      << "x", "\n" >>,
      << "{", Quote, "s", "e", "n", "t", "e", "n", "c", "e", Quote, ":", Quote, "a", Quote, "}", "\n" >>,
      SubSeq(RecordLine(FileTu), 1, 12) }

RECURSIVE Concat(_)
Concat(parts) == IF Len(parts) = 0 THEN << >> ELSE parts[1] \o Concat(Tail(parts))

FileInit ==
    /\ disk \in { Some(Concat(parts)) : parts \in SeqsUpTo(FileLinePool, MaxLines) }
    /\ w_file = "none"
    /\ w_counter = << >>
    /\ w_properties = None
    /\ tus = << >>
    /\ w_i = 1
    /\ h_pc = "closed"
    /\ h_exc = "none"
    /\ r_file = "none"
    /\ r_lines = << >>
    /\ units = << >>
    /\ r_err = FALSE
    /\ c_footer = None
    /\ c_err = "none"
    /\ XmlIdle
    /\ RestIdle

FileNext ==
    \/ ReaderEnter
    \/ ReaderNext
    \/ ReaderExit
    \/ CorpusFooter
    \/ CorpusNew

SpecFile == FileInit /\ [][FileNext]_vars

\* the last line of a text: what follows the last line feed that is not the
\* text's last character
FileLastLine(content) ==
    LET n == Len(content)
        m == IF n > 0 /\ content[n] = "\n" THEN n - 1 ELSE n
        feeds == { i \in 1..m : content[i] = "\n" }
        from == IF feeds = { } THEN 1 ELSE (CHOOSE i \in feeds : \A j \in feeds : j <= i) + 1
    IN SubSeq(content, from, m)

\* the footer query on the handle failed for want of a footer, or was not made
NoSummary == IsNone(c_footer) /\ c_err \in { "none", "ValueError" }

\* C21: when the last line of the file does not begin with the footer marker
\* (records were written and the writer was never closed, or anything else
\* follows the footer), the footer query behind languages, length and
\* properties raises the ValueError of Footer.parse and the handle gets no
\* footer, so no count is ever returned.
C21_NoFooterNoSummary ==
    ~startswith(FileLastLine(Get(disk)), FOOTER_LINE_BEGIN) => NoSummary

\* the same, for a file that does not end in an empty line
C21_WhenLastLineHasText ==
    (Get(disk) = << >> \/ FileLastLine(Get(disk)) # << >>) => C21_NoFooterNoSummary

\* the lines of the file the reader's loop has taken so far
LinesTaken == SubSeq(SplitLines(Get(disk)), 1, Len(SplitLines(Get(disk))) - Len(r_lines))

\* those of them that do not begin with the footer marker
RecordLinesTaken == { k \in 1..Len(LinesTaken) : ~startswith(LinesTaken[k], FOOTER_LINE_BEGIN) }

\* C25: while a reader iterates, every line taken that begins with the footer
\* marker has yielded nothing, and every other line taken has yielded one unit,
\* in order, but for the last line taken when the iteration raised on it; the
\* units of the lines before it are with the caller, and nothing is taken
\* after it.
C25_ReaderLines ==
    h_pc \in { "reading", "done" } =>
        /\ ~r_err => Len(units) = Cardinality(RecordLinesTaken)
        /\ r_err =>
              /\ Len(LinesTaken) \in RecordLinesTaken
              /\ Len(units) = Cardinality(RecordLinesTaken) - 1
        /\ h_pc = "done" => (r_err \/ Len(r_lines) = 0)

C25_Witness ==
    /\ h_pc = "done"
    /\ r_err
    /\ Len(units) = 1
    /\ Len(LinesTaken) = 3
    /\ startswith(LinesTaken[1], FOOTER_LINE_BEGIN)

(***************************************************************************)
(* Line format: the footer a writer scope leaves                           *)
(***************************************************************************)
\* the JSON value of the last line of the file, after the footer marker
FooterOnDisk ==
    LET line == tail_1(Get(disk))
    IN loads(SubSeq(line, Len(FOOTER_LINE_BEGIN) + 1, Len(line)))

\* C29: the footer a writer scope leaves holds the properties key only if the
\* writer's Properties holds a key; with no Properties, or with one that has
\* no keys, the footer holds the counter alone.
C29_FooterProperties ==
    ScopeClosed =>
        /\ FooterOnDisk.t = "o"
        /\ ~IsNone(DictGet(FooterOnDisk, K_counter))
        /\ ~IsNone(DictGet(FooterOnDisk, K_properties)) =>
              (~IsNone(w_properties) /\ size(Get(w_properties)) > 0)

\* the same, for a writer that was handed no Properties or one that holds a key
C29_WhenNoneOrFilled ==
    (IsNone(w_properties) \/ size(Get(w_properties)) > 0) => C29_FooterProperties

(***************************************************************************)
(* Language.from_string on any text                                        *)
(***************************************************************************)
MaxTexts == 2

\* a letter outside ASCII, which 'a' <= c <= 'z' and 'A' <= c <= 'Z' both refuse
NonAsciiLetter == "\\u00e8"

\* what a text may begin with, up to its first separator
FirstChunks ==
    { << >>, << "e" >>, S_en, << "E", "n" >>, << "e", "n", "g" >>, << "e", "n", "g", "l" >>,
      << "e", "1" >>, << NonAsciiLetter, "n" >>, << "e", " " >> }

\* and what may follow it
Continuations ==
    { << >>, << "-" >>, << "_", "U", "S" >>, << "-", "L", "a", "t", "n", "-", "4", "1", "9" >>,
      << "-", "-", NonAsciiLetter, "!", "_" >> }

\* the texts a caller hands to Language.from_string; None for no text
Texts == { None } \cup { Some(first \o more) : first \in FirstChunks, more \in Continuations }

ParseInit ==
    /\ g_in \in TuplesOf(Texts, MaxTexts)
    /\ g_tags = << >>
    /\ g_re = << >>
    /\ LineIdle
    /\ XmlIdle
    /\ TmxIdle
    /\ PropsIdle
    /\ PairIdle
    /\ NameIdle
    /\ PairReaderIdle
    /\ CallIdle
    /\ FacadeIdle
    /\ TailIdle
    /\ SubtagIdle
    /\ HeapIdle
    /\ EventIdle
    /\ RefilterIdle
    /\ RewriteIdle
    /\ ReuseIdle
    /\ ActivityIdle
    /\ ApplyIdle

\* Language.from_string on the next text
TextParse ==
    /\ Len(g_tags) < Len(g_in)
    /\ g_tags' = Append(g_tags, from_string(g_in[Len(g_tags) + 1]))
    /\ UNCHANGED << g_in, g_re >>
    /\ UNCHANGED notLangVars

ParseNext == TextParse

SpecParse == ParseInit /\ [][ParseNext]_vars

\* the text up to its first "-" or "_"
FirstChunk(text) ==
    LET seps == { i \in 1..Len(text) : text[i] \in { "-", "_" } }
    IN IF seps = { } THEN text
       ELSE SubSeq(text, 1, (CHOOSE i \in seps : \A j \in seps : i <= j) - 1)

AsciiLetters == { LowerLetters[i] : i \in 1..26 } \cup { UpperLetters[i] : i \in 1..26 }

\* two or three ASCII letters
IsPrimarySubtag(chunk) == Len(chunk) \in { 2, 3 } /\ \A i \in 1..Len(chunk) : chunk[i] \in AsciiLetters

\* C28: from_string raises exactly when there is no text, the text is empty,
\* or its first chunk is not two or three ASCII letters; every other text
\* gives a Language, whatever follows the first chunk.
C28_ParseFailsExactly ==
    \A k \in 1..Len(g_tags) :
        IsNone(g_tags[k]) <=>
            \/ IsNone(g_in[k])
            \/ Get(g_in[k]) = << >>
            \/ ~IsPrimarySubtag(FirstChunk(Get(g_in[k])))

C28_Witness ==
    /\ Len(g_tags) = 2
    /\ g_in[1] = Some(<< "e", "1", "_", "U", "S" >>)
    /\ IsNone(g_tags[1])
    /\ g_in[2] = Some(<< "e", "n", "g", "-", "-", NonAsciiLetter, "!", "_" >>)
    /\ ~IsNone(g_tags[2])
    /\ Get(g_tags[2]).code = << "e", "n", "g" >>

(***************************************************************************)
(* JTMCorpus on a path: what the constructor takes from the filename       *)
(***************************************************************************)
\* os.path.basename: what follows the last "/"
basename(path) ==
    LET slashes == { i \in 1..Len(path) : path[i] = "/" }
    IN IF slashes = { } THEN path
       ELSE SubSeq(path, (CHOOSE i \in slashes : \A j \in slashes : j <= i) + 1, Len(path))

\* str.split('__'): the separator is taken from left to right
RECURSIVE split_underscores(_)
split_underscores(s) ==
    LET at == { i \in 1..(Len(s) - 1) : s[i] = "_" /\ s[i + 1] = "_" }
    IN IF at = { } THEN << s >>
       ELSE LET k == CHOOSE i \in at : \A j \in at : i <= j
            IN << SubSeq(s, 1, k - 1) >> \o split_underscores(SubSeq(s, k + 2, Len(s)))

\* JTMCorpus.__post_init__ (larakit/corpus/jtm.py): None when an unpacking or
\* LanguageDirection.from_tuple raises ValueError
__post_init__(path) ==
    LET parts == split(basename(path), ".")
    IN IF Len(parts) < 3 THEN None
       ELSE LET lang_key == split_underscores(parts[3])
            IN IF Len(lang_key) # 2 THEN None
               ELSE LET language == from_tuple(JList(<< JStr(lang_key[1]), JStr(lang_key[2]) >>))
                    IN IF IsNone(language) THEN None
                       ELSE Some([datasource_key |-> lower(parts[1]), id |-> parts[2],
                                  language |-> Get(language)])

\* JTMCorpus.__init__ (larakit/corpus/_jtm.py): the name is the basename, and
\* nothing raises
JTMCorpusName(path) == Some(basename(path))

\* the parts filenames are made of
NameKeys == { << "D", "s" >>, << >> }
NameIds == { << "7" >>, << >> }
NameLangs ==
    { << "e", "n", "_", "_", "f", "r" >>, << "E", "N", "-", "u", "s", "_", "_", "F", "R" >>,
      << "e", "n", "_", "f", "r" >>, << "e", "n", "_", "_", "f", "r", "_", "_", "i", "t" >>,
      << "e", "_", "_", "f", "r" >>, << "e", "n", "_", "_" >> }
NameExts == { << ".", "j", "t", "m" >>, << >>, << "." >> }
NameDirs == { << >>, << "/", "d", ".", "x", "/" >> }

\* the paths a caller constructs a corpus on: filenames of the pattern, with a
\* part left empty, without an extension, with a language part that is no
\* pair of tags, and filenames of fewer parts
NamePaths ==
    { dir \o key \o << "." >> \o id \o << "." >> \o lang \o ext :
        dir \in NameDirs, key \in NameKeys, id \in NameIds, lang \in NameLangs, ext \in NameExts }
    \cup { dir \o name : dir \in NameDirs,
                         name \in { << "x", ".", "j", "t", "m" >>,
                                    << "e", "n", "_", "_", "f", "r", ".", "j", "t", "m" >> } }

NameInit ==
    /\ n_path \in NamePaths
    /\ n_corpus = "unset"
    /\ n_name = "unset"
    /\ LineIdle
    /\ XmlIdle
    /\ TmxIdle
    /\ LangIdle
    /\ PropsIdle
    /\ PairIdle
    /\ PairReaderIdle
    /\ CallIdle
    /\ FacadeIdle
    /\ TailIdle
    /\ SubtagIdle
    /\ HeapIdle
    /\ EventIdle
    /\ RefilterIdle
    /\ RewriteIdle
    /\ ReuseIdle
    /\ ActivityIdle
    /\ ApplyIdle

\* JTMCorpus(path) of larakit/corpus/jtm.py
NameConstruct ==
    /\ n_corpus = "unset"
    /\ n_corpus' = __post_init__(n_path)
    /\ UNCHANGED << n_path, n_name >>
    /\ UNCHANGED notNameVars

\* JTMCorpus(path) of larakit/corpus/_jtm.py
NameConstructPlain ==
    /\ n_name = "unset"
    /\ n_name' = JTMCorpusName(n_path)
    /\ UNCHANGED << n_path, n_corpus >>
    /\ UNCHANGED notNameVars

NameNext ==
    \/ NameConstruct
    \/ NameConstructPlain

SpecName == NameInit /\ [][NameNext]_vars

\* the filename is <datasourceKey>.<id>.<srcTag>__<tgtTag>.<ext>: four parts
\* between dots, none empty, the third two language tags joined by "__"
MatchesPattern(filename) ==
    LET parts == split(filename, ".")
    IN /\ Len(parts) = 4
       /\ \A k \in 1..4 : parts[k] # << >>
       /\ Len(split_underscores(parts[3])) = 2
       /\ ~IsNone(from_string(Some(split_underscores(parts[3])[1])))
       /\ ~IsNone(from_string(Some(split_underscores(parts[3])[2])))

\* what a corpus on a filename of the pattern exposes
Identity(filename) ==
    LET parts == split(filename, ".")
    IN [datasource_key |-> lower(parts[1]), id |-> parts[2],
        language |-> [source |-> Get(from_string(Some(split_underscores(parts[3])[1]))),
                      target |-> Get(from_string(Some(split_underscores(parts[3])[2])))]]

\* C30: a corpus constructed on a filename of the pattern exposes the
\* lower-cased datasource key, the id and the direction; a construction on any
\* other filename fails.
C30_FilenameIdentity ==
    /\ n_corpus # "unset" =>
          IF MatchesPattern(basename(n_path))
          THEN n_corpus = Some(Identity(basename(n_path)))
          ELSE IsNone(n_corpus)
    /\ n_name # "unset" => (~MatchesPattern(basename(n_path)) => IsNone(n_name))

\* the same, of the constructor that reads the filename, on filenames of the pattern
C30_WhenMatches ==
    (n_corpus # "unset" /\ MatchesPattern(basename(n_path))) => n_corpus = Some(Identity(basename(n_path)))

(***************************************************************************)
(* ParallelCorpusReader on two files as they are found on disk             *)
(***************************************************************************)
MaxPairLines == 2

\* the lines such files are made of: text, text within spaces that ends in
\* "\r\n", an empty line, and text that no line feed ends
PairLinePool == { << "a", "\n" >>, << " ", "b", " ", "\r", "\n" >>, << "\n" >>, << "c" >> }

\* what a path may hold: nothing that can be opened, or a text
PairFiles == { None } \cup { Some(Concat(parts)) : parts \in SeqsUpTo(PairLinePool, MaxPairLines) }

PairReaderInit ==
    /\ q_source \in PairFiles
    /\ q_target \in PairFiles
    /\ q_source_file = "none"
    /\ q_target_file = "none"
    /\ q_source_lines = << >>
    /\ q_target_lines = << >>
    /\ q_units = << >>
    /\ q_pc = "start"
    /\ LineIdle
    /\ XmlIdle
    /\ TmxIdle
    /\ LangIdle
    /\ PropsIdle
    /\ PairIdle
    /\ NameIdle
    /\ CallIdle
    /\ FacadeIdle
    /\ TailIdle
    /\ SubtagIdle
    /\ HeapIdle
    /\ EventIdle
    /\ RefilterIdle
    /\ RewriteIdle
    /\ ReuseIdle
    /\ ActivityIdle
    /\ ApplyIdle

\* ParallelCorpusReader.__enter__: the source file is opened, then the target
\* file; when an open raises, __enter__ is left at once and __exit__ never runs
PairReaderEnter ==
    /\ q_pc = "start"
    /\ IF IsNone(q_source)
       THEN /\ q_pc' = "unavailable"
            /\ UNCHANGED << q_source_file, q_target_file, q_source_lines, q_target_lines >>
       ELSE /\ q_source_file' = "open"
            /\ q_source_lines' = SplitLines(Get(q_source))
            /\ IF IsNone(q_target)
               THEN /\ q_pc' = "unavailable"
                    /\ UNCHANGED << q_target_file, q_target_lines >>
               ELSE /\ q_target_file' = "open"
                    /\ q_target_lines' = SplitLines(Get(q_target))
                    /\ q_pc' = "reading"
    /\ UNCHANGED << q_source, q_target, q_units >>
    /\ UNCHANGED notPairReaderVars

\* a zip that goes on to the end of the longer file, with empty lines for the shorter
zip_longest_next(source_lines, target_lines) ==
    IF Len(source_lines) = 0 /\ Len(target_lines) = 0
    THEN [pair |-> None, source_lines |-> << >>, target_lines |-> << >>]
    ELSE [pair |-> Some(<< IF Len(source_lines) = 0 THEN << >> ELSE source_lines[1],
                           IF Len(target_lines) = 0 THEN << >> ELSE target_lines[1] >>),
          source_lines |-> IF Len(source_lines) = 0 THEN << >> ELSE Tail(source_lines),
          target_lines |-> IF Len(target_lines) = 0 THEN << >> ELSE Tail(target_lines)]

\* one step of zip(self._source_file, self._target_file): a line of the source
\* file is asked for, then a line of the target file, and the first file that
\* has none left ends the iteration
zip_next(source_lines, target_lines) ==
    IF Len(source_lines) = 0
    THEN [pair |-> None, source_lines |-> << >>, target_lines |-> target_lines]
    ELSE IF Len(target_lines) = 0
    THEN [pair |-> None, source_lines |-> Tail(source_lines), target_lines |-> << >>]
    ELSE [pair |-> Some(<< source_lines[1], target_lines[1] >>),
          source_lines |-> Tail(source_lines), target_lines |-> Tail(target_lines)]

\* one turn of the loop of ParallelCorpusReader.__iter__
PairReaderNext ==
    /\ q_pc = "reading"
    /\ LET z == zip_next(q_source_lines, q_target_lines)
       IN /\ q_source_lines' = z.source_lines
          /\ q_target_lines' = z.target_lines
          /\ IF IsNone(z.pair)
             THEN q_pc' = "exhausted" /\ UNCHANGED q_units
             ELSE /\ q_units' = Append(q_units,
                                   TranslationUnit(PairLanguage, strip(Get(z.pair)[1]), strip(Get(z.pair)[2]),
                                                   None, None, None, None))
                  /\ UNCHANGED q_pc
    /\ UNCHANGED << q_source, q_target, q_source_file, q_target_file >>
    /\ UNCHANGED notPairReaderVars

\* ParallelCorpusReader.__exit__, when the body of the scope is left
PairReaderExit ==
    /\ q_pc \in { "reading", "exhausted" }
    /\ q_source_file' = "closed"
    /\ q_target_file' = "closed"
    /\ q_pc' = "done"
    /\ UNCHANGED << q_source, q_target, q_source_lines, q_target_lines, q_units >>
    /\ UNCHANGED notPairReaderVars

PairReaderStep ==
    \/ PairReaderEnter
    \/ PairReaderNext
    \/ PairReaderExit

SpecPairReader == PairReaderInit /\ [][PairReaderStep]_vars

\* no scope of the reader is active
NoReaderScope == q_pc \in { "start", "unavailable", "done" }

\* C22: whenever no reader or writer scope is active, no file the corpus layer
\* opened is still open: not after the body of a scope was left, by its end or
\* by an exception, and not after the opening of the second of two files failed.
C22_ScopedResources ==
    NoReaderScope => (q_source_file # "open" /\ q_target_file # "open")

\* the same, when both files could be opened
C22_WhenOpened ==
    (~IsNone(q_source) /\ ~IsNone(q_target)) => C22_ScopedResources

Shorter(m, n) == IF m <= n THEN m ELSE n

\* C27: when the reader's iteration comes to its end on files of m and n
\* lines, it has yielded the smaller of m and n units, the k-th made of the
\* k-th line of the source file and the k-th line of the target file, each
\* stripped; files of different line counts end the iteration like any others.
C27_PairsLines ==
    q_pc = "exhausted" =>
        LET source == SplitLines(Get(q_source))
            target == SplitLines(Get(q_target))
        IN /\ Len(q_units) = Shorter(Len(source), Len(target))
           /\ \A k \in 1..Len(q_units) :
                 /\ q_units[k].sentence = strip(source[k])
                 /\ q_units[k].translation = strip(target[k])

C27_Witness ==
    /\ q_pc = "exhausted"
    /\ Len(SplitLines(Get(q_source))) = 2
    /\ Len(SplitLines(Get(q_target))) = 1
    /\ Len(q_units) = 1
    /\ q_units[1].sentence = << "b" >>
    /\ q_units[1].translation = << "c" >>

(***************************************************************************)
(* Readers and writers that were constructed and never opened              *)
(***************************************************************************)
\* every reader and writer is as its constructor left it, and no file exists
UnopenedInit ==
    /\ u_tus \in SeqsUpTo(RecordPool, MaxRecords)
    /\ u_i = 1
    /\ u_call = "none"
    /\ u_exc = "none"
    /\ LineIdle
    /\ XmlIdle
    /\ TmxIdle
    /\ LangIdle
    /\ PropsIdle
    /\ PairIdle
    /\ NameIdle
    /\ PairReaderIdle
    /\ FacadeIdle
    /\ TailIdle
    /\ SubtagIdle
    /\ HeapIdle
    /\ EventIdle
    /\ RefilterIdle
    /\ RewriteIdle
    /\ ReuseIdle
    /\ ActivityIdle
    /\ ApplyIdle

\* JTMWriter.write(tu) with self._file None: the counter is incremented, then
\* self._file.write raises AttributeError
JTMWriteUnopened ==
    /\ w_file = "none"
    /\ u_i <= Len(u_tus)
    /\ w_counter' = CounterAfterWrite(w_counter, u_tus[u_i])
    /\ u_i' = u_i + 1
    /\ u_call' = "JTMWriter.write"
    /\ u_exc' = "AttributeError"
    /\ UNCHANGED << disk, w_file, w_properties, tus, w_i, h_pc, h_exc, r_file, r_lines, units, r_err,
                    c_footer, c_err >>
    /\ UNCHANGED u_tus
    /\ UNCHANGED << xmlVars, tmxVars, langVars, propVars, pairVars, nameVars, pairReaderVars, facadeVars, tailVars, subtagVars, heapVars, eventVars, refilterVars, rewriteVars, reuseVars, activityVars, applyVars >>

\* iterating a JTMReader with self._file None: IOError before any line is read
JTMIterUnopened ==
    /\ r_file = "none"
    /\ u_call' = "JTMReader.__iter__"
    /\ u_exc' = "IOError"
    /\ UNCHANGED << u_tus, u_i >>
    /\ UNCHANGED notCallVars

\* ParallelCorpusWriter.write(tu) with self._source_file None: AttributeError
\* from self._source_file.write
PairWriteUnopened ==
    /\ pp_pc = "idle"
    /\ u_i <= Len(u_tus)
    /\ u_i' = u_i + 1
    /\ u_call' = "ParallelCorpusWriter.write"
    /\ u_exc' = "AttributeError"
    /\ UNCHANGED u_tus
    /\ UNCHANGED notCallVars

\* iterating a ParallelCorpusReader with a file None: IOError
PairIterUnopened ==
    /\ q_source_file = "none" \/ q_target_file = "none"
    /\ u_call' = "ParallelCorpusReader.__iter__"
    /\ u_exc' = "IOError"
    /\ UNCHANGED << u_tus, u_i >>
    /\ UNCHANGED notCallVars

\* TMXWriter.write(tu) with self._file None: IOError before the header
TmxWriteUnopened ==
    /\ t_file = "none"
    /\ u_i <= Len(u_tus)
    /\ u_i' = u_i + 1
    /\ u_call' = "TMXWriter.write"
    /\ u_exc' = "IOError"
    /\ UNCHANGED u_tus
    /\ UNCHANGED notCallVars

\* iterating a TMXReader with self._file None: IOError before the parser is made
TmxIterUnopened ==
    /\ x_pc = "idle"
    /\ u_call' = "TMXReader.__iter__"
    /\ u_exc' = "IOError"
    /\ UNCHANGED << u_tus, u_i >>
    /\ UNCHANGED notCallVars

UnopenedNext ==
    \/ JTMWriteUnopened
    \/ JTMIterUnopened
    \/ PairWriteUnopened
    \/ PairIterUnopened
    \/ TmxWriteUnopened
    \/ TmxIterUnopened

SpecUnopened == UnopenedInit /\ [][UnopenedNext]_vars

\* every reader and writer is as its constructor left it: nothing yielded,
\* nothing written, no unit counted, no header flagged
AsConstructed ==
    /\ w_counter = << >>
    /\ IsNone(disk) /\ units = << >>
    /\ ~t_header_written /\ t_disk = << >> /\ t_units = << >>
    /\ pp_source = << >> /\ pp_target = << >> /\ pp_units = << >>
    /\ q_units = << >> /\ out = << >>

\* C23: iterating a reader or calling write on a writer that was never opened
\* raises the IOError that says it is not open, yields and writes nothing,
\* and leaves the reader or writer as it was.
C23_NotOpen ==
    u_call # "none" => (u_exc = "IOError" /\ AsConstructed)

\* the same, of the three readers and the TMX writer
C23_ReadersAndTmxWriter ==
    (u_call \in { "JTMReader.__iter__", "ParallelCorpusReader.__iter__", "TMXReader.__iter__", "TMXWriter.write" }
        /\ w_counter = << >>)
    => C23_NotOpen

(***************************************************************************)
(* TMXCorpus: the queries of the facade on a file that is rewritten        *)
(***************************************************************************)
MaxEntries == 2

\* a <tu> with two variants, one with a single variant, and one whose source
\* variant carries a tag that does not parse
EntryUsable == TuLines(TranslationUnit(Direction(S_en, S_fr), << "a" >>, << "b" >>, None, None, None, None))
EntryUnusable == << Line("tu"), TuvLine(S_en, << "a" >>), Line("tu_end") >>
EntryMalformed ==
    << Line("tu"), TuvLine(<< "e", "!" >>, << "a" >>), TuvLine(S_fr, << "b" >>), Line("tu_end") >>

EntryKinds == { "usable", "unusable", "malformed" }

EntryLines(kind) ==
    CASE kind = "usable" -> EntryUsable
      [] kind = "unusable" -> EntryUnusable
      [] kind = "malformed" -> EntryMalformed

\* the lines of a file with that header and those entries
FileLines(header_properties, kinds) ==
    HeaderLines(Some(S_en), header_properties)
    \o Concat([i \in 1..Len(kinds) |-> EntryLines(kinds[i])])
    \o ClosingLines

\* the files: none, or a header with or without a property and some entries
FacadeFiles ==
    { None } \cup
    { Some(FileLines(hp, kinds)) :
        hp \in { None, Some(P_note) }, kinds \in SeqsUpTo(EntryKinds, MaxEntries) }

\* what a writer scope with a header property and one unit leaves at the path
RewrittenFile == Some(FileLines(Some(P_note), << "usable" >>))

\* the locals of TMXReader.__iter__ before the first event, with the reader's
\* header properties, the units yielded and the number of <tu> ends handled
PassStart ==
    [mode |-> "start", header_srclang |-> None, tu_attrs |-> NoAttrs, tu_properties |-> None,
     tuvs |-> << >>, header_properties |-> P_empty, records |-> << >>, entries |-> 0]

\* one event of TMXReader.__iter__: the locals after the line. mode is
\* "failed" when the iteration raised (the parser on markup that is not
\* well-formed, or LanguageDirection.from_tuple on a tag) and "yielded" when
\* the caller took its first unit and asked for one only
PassStep(l, st, first) ==
    IF ~LineWellFormed(l) THEN [st EXCEPT !.mode = "failed"]
    ELSE IF st.mode = "start" /\ l.k = "prolog" THEN [st EXCEPT !.mode = "prolog"]
    ELSE IF st.mode = "prolog" /\ l.k = "tmx" THEN [st EXCEPT !.mode = "root"]
    ELSE IF st.mode = "root" /\ l.k = "header"
    THEN [st EXCEPT !.mode = "header", !.header_srclang = Or(Attribute(l.srclang), st.header_srclang)]
    ELSE IF st.mode = "header" /\ l.k = "prop"
    THEN IF Truthy(Attribute(l.type))
         THEN [st EXCEPT !.header_properties =
                   put(st.header_properties, Get(Attribute(l.type)), Get(ElementText(Get(l.text))))]
         ELSE st
    ELSE IF st.mode = "header" /\ l.k = "header_end" THEN [st EXCEPT !.mode = "afterheader"]
    ELSE IF st.mode = "afterheader" /\ l.k = "body" THEN [st EXCEPT !.mode = "body"]
    ELSE IF st.mode = "body" /\ l.k = "close" THEN [st EXCEPT !.mode = "end"]
    ELSE IF st.mode = "body" /\ l.k = "tu"
    THEN [st EXCEPT !.mode = "tu",
                    !.tu_attrs = [tuid |-> Attribute(l.tuid), srclang |-> Attribute(l.srclang),
                                  creationdate |-> Attribute(l.creationdate),
                                  changedate |-> Attribute(l.changedate)],
                    !.tu_properties = Some(P_empty),
                    !.tuvs = << >>]
    ELSE IF st.mode = "tu" /\ l.k = "prop"
    THEN IF Truthy(Attribute(l.type))
         THEN [st EXCEPT !.tu_properties =
                   Some(put(Get(st.tu_properties), Get(Attribute(l.type)), Get(ElementText(Get(l.text)))))]
         ELSE st
    ELSE IF st.mode = "tu" /\ l.k = "tuv"
    THEN LET tuv == [lang |-> _get_lang(Attribute(l.lang), None), creationdate |-> None,
                     changedate |-> None,
                     text |-> Some(_normalize_segment(Get(ElementText(Get(l.text)))))]
         IN IF KeepsTuv(tuv) THEN [st EXCEPT !.tuvs = Append(@, tuv)] ELSE st
    ELSE IF st.mode = "tu" /\ l.k = "tu_end"
    THEN LET end == EndOfTu(st.tu_attrs, st.header_srclang, st.tuvs, st.tu_properties)
         IN [st EXCEPT !.mode = IF first /\ end.records # << >> THEN "yielded"
                                ELSE IF end.raised THEN "failed" ELSE "body",
                       !.records = @ \o end.records,
                       !.entries = @ + 1,
                       !.tu_attrs = NoAttrs, !.tu_properties = None, !.tuvs = << >>]
    ELSE [st EXCEPT !.mode = "failed"]

\* TMXReader.__iter__ from line i on, until the file ends, the iteration
\* raises or the caller stops; the locals after each line are computed once
RECURSIVE Iterate(_, _, _, _)
Iterate(lines, i, st, first) ==
    IF i > Len(lines) \/ st.mode \in { "failed", "yielded" } THEN st
    ELSE CHOOSE last \in { Iterate(lines, i + 1, after, first) :
                             after \in { PassStep(lines[i], st, first) } } : TRUE

\* whether the pass raised: in the loop, or the parser at the end of a
\* document that is not closed
Raised(st) == st.mode \notin { "end", "yielded" }

\* `for tu in r` to the end, and `for _ in r: break`
FullPass(lines) == Iterate(lines, 1, PassStart, FALSE)
FirstPass(lines) == Iterate(lines, 1, PassStart, TRUE)

\* the file at the path of the corpus: None, or its lines
FacadeDisk == f_files[f_k]

\* whether open(path) raises FileNotFoundError
FileMissing == IsNone(FacadeDisk)

QueryNames == { "languages", "len", "properties" }

\* the first value the instance returned for the query, None before it did
FirstOf(q) == f_first[q]

\* the history after a query that returned
FirstAfter(q, result) == IF IsNone(f_first[q]) THEN [f_first EXCEPT ![q] = Some(result)] ELSE f_first

\* what a query hands back: the value under the name of the query
NoResult == [languages |-> {}, len |-> 0, properties |-> None]
Returned(q, result) == [NoResult EXCEPT ![q] = result]

\* TMXCorpus(path): nothing is cached
FacadeInit ==
    /\ f_files \in { << file, RewrittenFile >> : file \in FacadeFiles }
    /\ f_k = 1
    /\ f_languages = None
    /\ f_length = None
    /\ f_header_properties = None
    /\ f_query = "none"
    /\ f_result = NoResult
    /\ f_exc = "none"
    /\ f_read = FALSE
    /\ f_entries = 0
    /\ f_first = [q \in QueryNames |-> None]
    /\ f_again = FALSE
    /\ LineIdle
    /\ XmlIdle
    /\ TmxIdle
    /\ LangIdle
    /\ PropsIdle
    /\ PairIdle
    /\ NameIdle
    /\ PairReaderIdle
    /\ CallIdle
    /\ TailIdle
    /\ SubtagIdle
    /\ HeapIdle
    /\ EventIdle
    /\ RefilterIdle
    /\ RewriteIdle
    /\ ReuseIdle
    /\ ActivityIdle
    /\ ApplyIdle

\* the directions of the units
LanguagesOf(records) == { records[i].language : i \in 1..Len(records) }

\* TMXCorpus.languages
FacadeLanguages ==
    /\ f_query # "idle"
    /\ f_query' = "languages"
    /\ f_again' = ~IsNone(FirstOf("languages"))
    /\ IF ~IsNone(f_languages)
       THEN /\ f_result' = Returned("languages", Get(f_languages))
            /\ f_exc' = "none"
            /\ f_read' = FALSE
            /\ f_first' = FirstAfter("languages", Get(f_languages))
            /\ UNCHANGED f_languages
       ELSE IF FileMissing
       THEN /\ f_languages' = Some({})
            /\ f_result' = Returned("languages", {})
            /\ f_exc' = "none"
            /\ f_read' = FALSE
            /\ f_first' = FirstAfter("languages", {})
       ELSE \E pass \in { FullPass(Get(FacadeDisk)) } :
              IF Raised(pass)
              THEN /\ f_result' = NoResult
                   /\ f_exc' = "ValueError"
                   /\ f_read' = TRUE
                   /\ UNCHANGED << f_languages, f_first >>
              ELSE /\ f_languages' = Some(LanguagesOf(pass.records))
                   /\ f_result' = Returned("languages", LanguagesOf(pass.records))
                   /\ f_exc' = "none"
                   /\ f_read' = TRUE
                   /\ f_first' = FirstAfter("languages", LanguagesOf(pass.records))
    /\ f_entries' = 0
    /\ UNCHANGED << f_files, f_k, f_length, f_header_properties >>
    /\ UNCHANGED notFacadeVars

\* TMXCorpus.__len__
FacadeLen ==
    /\ f_query # "idle"
    /\ f_query' = "len"
    /\ f_again' = ~IsNone(FirstOf("len"))
    /\ IF ~IsNone(f_length)
       THEN /\ f_result' = Returned("len", Get(f_length))
            /\ f_exc' = "none"
            /\ f_read' = FALSE
            /\ f_first' = FirstAfter("len", Get(f_length))
            /\ UNCHANGED f_length
       ELSE IF FileMissing
       THEN /\ f_length' = Some(0)
            /\ f_result' = Returned("len", 0)
            /\ f_exc' = "none"
            /\ f_read' = FALSE
            /\ f_first' = FirstAfter("len", 0)
       ELSE \E pass \in { FullPass(Get(FacadeDisk)) } :
              IF Raised(pass)
              THEN /\ f_result' = NoResult
                   /\ f_exc' = "ValueError"
                   /\ f_read' = TRUE
                   /\ UNCHANGED << f_length, f_first >>
              ELSE /\ f_length' = Some(Len(pass.records))
                   /\ f_result' = Returned("len", Len(pass.records))
                   /\ f_exc' = "none"
                   /\ f_read' = TRUE
                   /\ f_first' = FirstAfter("len", Len(pass.records))
    /\ f_entries' = 0
    /\ UNCHANGED << f_files, f_k, f_languages, f_header_properties >>
    /\ UNCHANGED notFacadeVars

\* what TMXCorpus.properties stores after the pass: the reader's header
\* properties when there is one, None otherwise
StoredProperties(header_properties) ==
    IF size(header_properties) > 0 THEN Some(header_properties) ELSE None

\* TMXCorpus.properties
FacadeProperties ==
    /\ f_query # "idle"
    /\ f_query' = "properties"
    /\ f_again' = ~IsNone(FirstOf("properties"))
    /\ IF ~IsNone(f_header_properties)
       THEN /\ f_result' = Returned("properties", f_header_properties)
            /\ f_exc' = "none"
            /\ f_read' = FALSE
            /\ f_entries' = 0
            /\ f_first' = FirstAfter("properties", f_header_properties)
            /\ UNCHANGED f_header_properties
       ELSE IF FileMissing
       THEN /\ f_header_properties' = None
            /\ f_result' = NoResult
            /\ f_exc' = "none"
            /\ f_read' = FALSE
            /\ f_entries' = 0
            /\ f_first' = FirstAfter("properties", None)
       ELSE \E pass \in { FirstPass(Get(FacadeDisk)) } :
              IF Raised(pass)
              THEN /\ f_result' = NoResult
                   /\ f_exc' = "ValueError"
                   /\ f_read' = TRUE
                   /\ f_entries' = pass.entries
                   /\ UNCHANGED << f_header_properties, f_first >>
              ELSE /\ f_header_properties' = StoredProperties(pass.header_properties)
                   /\ f_result' = Returned("properties", StoredProperties(pass.header_properties))
                   /\ f_exc' = "none"
                   /\ f_read' = TRUE
                   /\ f_entries' = pass.entries
                   /\ f_first' = FirstAfter("properties", StoredProperties(pass.header_properties))
    /\ UNCHANGED << f_files, f_k, f_languages, f_length >>
    /\ UNCHANGED notFacadeVars

\* the file at the path is replaced by another (a writer scope of some
\* instance, or anything else that writes the path)
FacadeRewrite ==
    /\ f_k = 1
    /\ f_k' = 2
    /\ UNCHANGED << f_files, f_languages, f_length, f_header_properties, f_query, f_result, f_exc,
                    f_read, f_entries, f_first, f_again >>
    /\ UNCHANGED notFacadeVars

\* a new TMXCorpus on the same path
FacadeNew ==
    /\ f_query \in QueryNames
    /\ f_languages' = None
    /\ f_length' = None
    /\ f_header_properties' = None
    /\ f_query' = "none"
    /\ f_result' = NoResult
    /\ f_exc' = "none"
    /\ f_read' = FALSE
    /\ f_entries' = 0
    /\ f_first' = [q \in QueryNames |-> None]
    /\ f_again' = FALSE
    /\ UNCHANGED << f_files, f_k >>
    /\ UNCHANGED notFacadeVars

FacadeNext ==
    \/ FacadeLanguages
    \/ FacadeLen
    \/ FacadeProperties
    \/ FacadeRewrite
    \/ FacadeNew

SpecFacade == FacadeInit /\ [][FacadeNext]_vars

\* C24: once an instance has answered languages, length or properties, every
\* later query of it on that instance returns the value it returned the first
\* time and does not open the file, whatever has been written to the path since.
C24_Memoization ==
    (f_query \in QueryNames /\ f_again) =>
        /\ f_exc = "none"
        /\ f_result[f_query] = Get(FirstOf(f_query))
        /\ ~f_read

\* the same, of languages and length
C24_LanguagesAndLength ==
    f_query \in { "languages", "len" } => C24_Memoization

\* the header properties of the file, read off its header lines
RECURSIVE HeaderPropertiesFrom(_, _, _)
HeaderPropertiesFrom(lines, i, acc) ==
    IF i > Len(lines) \/ lines[i].k = "header_end" THEN acc
    ELSE HeaderPropertiesFrom(lines, i + 1,
             IF lines[i].k = "prop" /\ Truthy(Attribute(lines[i].type))
             THEN put(acc, Get(Attribute(lines[i].type)), Get(ElementText(Get(lines[i].text))))
             ELSE acc)

\* what a query returned, as a multimap: None is the empty one
AsMultimap(result) == IF IsNone(result) THEN P_empty ELSE Get(result)

\* C26: the properties query on a file returns the header properties and has
\* handled no entry of the body, whether the body has no entries, only
\* unusable ones, or one with a malformed tag.
C26_StopsAtHeaderEnd ==
    [][(FacadeProperties /\ f_read') =>
          /\ f_exc' = "none"
          /\ AsMultimap(f_result'.properties) = HeaderPropertiesFrom(Get(FacadeDisk), 1, P_empty)
          /\ f_entries' = 0]_vars

\* whether the body of the file has no entry
NoEntries(lines) == \A i \in 1..Len(lines) : lines[i].k # "tu"

\* the same, when the body has no entry
C26_WhenNoEntries ==
    [][(FacadeProperties /\ f_read' /\ NoEntries(Get(FacadeDisk))) =>
          /\ f_exc' = "none"
          /\ AsMultimap(f_result'.properties) = HeaderPropertiesFrom(Get(FacadeDisk), 1, P_empty)
          /\ f_entries' = 0]_vars

(***************************************************************************)
(* shell.tail_1: the window loop, one iteration at a time                  *)
(***************************************************************************)
MaxWindows == 2

\* a bytes object is held as its runs: << [c |-> "a", n |-> 3], ... >> is
\* b'aaa...'; no run is empty and no two neighbours have the same byte, so
\* two bytes objects are equal when their runs are
Run(c, n) == [c |-> c, n |-> n]

RECURSIVE Bytes(_)
Bytes(runs) ==
    IF Len(runs) = 0 THEN << >>
    ELSE IF runs[1].n = 0 THEN Bytes(Tail(runs))
    ELSE IF Len(runs) > 1 /\ runs[2].n = 0 THEN Bytes(<< runs[1] >> \o Tail(Tail(runs)))
    ELSE IF Len(runs) > 1 /\ runs[1].c = runs[2].c
    THEN Bytes(<< Run(runs[1].c, runs[1].n + runs[2].n) >> \o Tail(Tail(runs)))
    ELSE << runs[1] >> \o Bytes(Tail(runs))

\* len(bytes)
RECURSIVE BytesLen(_)
BytesLen(bytes) == IF Len(bytes) = 0 THEN 0 ELSE bytes[1].n + BytesLen(Tail(bytes))

\* bytes[len(bytes) - k:], for k <= len(bytes)
RECURSIVE BytesSuffix(_, _)
BytesSuffix(bytes, k) ==
    IF k = 0 \/ Len(bytes) = 0 THEN << >>
    ELSE LET last == bytes[Len(bytes)]
         IN IF last.n >= k THEN << Run(last.c, k) >>
            ELSE BytesSuffix(SubSeq(bytes, 1, Len(bytes) - 1), k - last.n) \o << last >>

\* lengths around the multiples of the initial window
NearWindow == { InitialWindow * m + d : m \in 1..MaxWindows, d \in { 0 - 1, 0, 1 } }

\* the files: a first line or none, a last line, and a run of newlines
TailContents ==
    { Bytes(<< Run("a", n1), Run("\n", s), Run("b", n2), Run("\n", n3) >>) :
        n1 \in { 0, 1, InitialWindow }, s \in { 0, 1 },
        n2 \in { 0, 1 } \cup NearWindow, n3 \in { 0, 1, 2, InitialWindow + 1 } }

TailInit ==
    /\ l_content \in TailContents
    /\ l_window = InitialWindow
    /\ l_pc = "loop"
    /\ l_result = << >>
    /\ LineIdle
    /\ XmlIdle
    /\ TmxIdle
    /\ LangIdle
    /\ PropsIdle
    /\ PairIdle
    /\ NameIdle
    /\ PairReaderIdle
    /\ CallIdle
    /\ FacadeIdle
    /\ SubtagIdle
    /\ HeapIdle
    /\ EventIdle
    /\ RefilterIdle
    /\ RewriteIdle
    /\ ReuseIdle
    /\ ActivityIdle
    /\ ApplyIdle

\* file.seek(-min(file_size, window_size), 2); file.read()
WindowRead(content, window_size) ==
    BytesSuffix(content, IF BytesLen(content) < window_size THEN BytesLen(content) ELSE window_size)

\* the bytes as they are read, trailing newlines kept
BytesUnstripped(bytes) == bytes

\* bytes.rstrip(b'\n')
BytesRstrip(bytes) ==
    IF Len(bytes) > 0 /\ bytes[Len(bytes)].c = "\n" THEN SubSeq(bytes, 1, Len(bytes) - 1) ELSE bytes

\* the run that holds bytes.rindex(b'\n'); 0 when b'\n' is not in bytes
LastNewlineRun(bytes) ==
    IF \E i \in 1..Len(bytes) : bytes[i].c = "\n"
    THEN CHOOSE i \in 1..Len(bytes) : bytes[i].c = "\n" /\ \A j \in (i + 1)..Len(bytes) : bytes[j].c # "\n"
    ELSE 0

\* one iteration of the loop of tail_1
Tail1Iterate ==
    /\ l_pc = "loop"
    /\ \E last_line \in { BytesRstrip(WindowRead(l_content, l_window)) } :
          IF LastNewlineRun(last_line) # 0
          THEN /\ l_result' = SubSeq(last_line, LastNewlineRun(last_line) + 1, Len(last_line))
               /\ l_pc' = "done"
               /\ UNCHANGED l_window
          ELSE IF l_window >= BytesLen(l_content)
          THEN /\ l_result' = last_line
               /\ l_pc' = "done"
               /\ UNCHANGED l_window
          ELSE /\ l_window' = l_window * 2
               /\ UNCHANGED << l_pc, l_result >>
    /\ UNCHANGED l_content
    /\ UNCHANGED notTailVars

TailNext == Tail1Iterate

SpecTail == TailInit /\ [][TailNext]_vars /\ WF_vars(Tail1Iterate)

\* the last run of the file that is not newlines (0 when there is none), and
\* the last run of newlines before it (0 when there is none)
LastTextRun(content) ==
    LET text == { i \in 1..Len(content) : content[i].c # "\n" }
    IN IF text = { } THEN 0 ELSE CHOOSE i \in text : \A j \in text : j <= i

NewlineRunBefore(content) ==
    LET before == { i \in 1..LastTextRun(content) : content[i].c = "\n" }
    IN IF before = { } THEN 0 ELSE CHOOSE i \in before : \A j \in before : j <= i

\* the last line of the file: the bytes after the last newline before the
\* trailing run of newlines, up to that run
LastLine(content) == SubSeq(content, NewlineRunBefore(content) + 1, LastTextRun(content))

\* how many bytes from the end of the file the last newline before the last
\* line is; 0 when there is none
NewlineDistance(content) ==
    IF NewlineRunBefore(content) = 0 THEN 0
    ELSE BytesLen(SubSeq(content, NewlineRunBefore(content) + 1, Len(content))) + 1

\* whether a window of that size holds a newline before the last line or
\* covers the whole file
WindowSuffices(content, window_size) ==
    \/ window_size >= BytesLen(content)
    \/ NewlineDistance(content) # 0 /\ NewlineDistance(content) <= window_size

TailReturned == l_pc = "done"

\* what tail_1 returned is the last line, and the window it stopped at is the
\* first of the doubling windows that suffices
TailExact ==
    TailReturned =>
        /\ l_result = LastLine(l_content)
        /\ WindowSuffices(l_content, l_window)
        /\ l_window > InitialWindow => ~WindowSuffices(l_content, l_window \div 2)

\* C31: on every file tail_1 returns, and what it returns is exactly the last
\* line of the file, whatever its length relative to the initial window; the
\* window stops growing at the first size that holds a newline before the
\* last line or covers the file.
C31_TailLastLine == []TailExact /\ <>TailReturned

\* tail_1 has returned a last line longer than the initial window, after
\* growing the window past a first line
C31_Witness ==
    /\ TailReturned
    /\ BytesLen(l_result) > InitialWindow
    /\ l_window > InitialWindow
    /\ NewlineDistance(l_content) # 0

(***************************************************************************)
(* Language.from_string: which chunk becomes which subtag                  *)
(***************************************************************************)
MaxChunks == 3

\* first chunks that parse, and the chunks that may follow: script-like,
\* region-like, and neither
PrimaryChunks == { S_en, << "E", "N", "G" >> }
ChunkPool ==
    { << "L", "a", "t", "n" >>, << "c", "y", "r", "l" >>, << "u", "s" >>, << "4", "1", "9" >>,
      << "x", "1" >>, << >>, << "a", "b", "c", "d", "e" >> }

SubtagInit ==
    /\ k_chunks \in { << first >> \o more : first \in PrimaryChunks, more \in SeqsUpTo(ChunkPool, MaxChunks) }
    /\ k_sep \in { "-", "_" }
    /\ k_pc = "start"
    /\ k_lang = None
    /\ k_only = FALSE
    /\ LineIdle
    /\ XmlIdle
    /\ TmxIdle
    /\ LangIdle
    /\ PropsIdle
    /\ PairIdle
    /\ NameIdle
    /\ PairReaderIdle
    /\ CallIdle
    /\ FacadeIdle
    /\ TailIdle
    /\ HeapIdle
    /\ EventIdle
    /\ RefilterIdle
    /\ RewriteIdle
    /\ ReuseIdle
    /\ ActivityIdle
    /\ ApplyIdle

\* Language.from_string(text).is_language_only() on the text of the chunks
SubtagParse ==
    /\ k_pc = "start"
    /\ \E parsed \in { from_string(Some(join(k_chunks, k_sep))) } :
          /\ k_lang' = parsed
          /\ k_only' = (~IsNone(parsed) /\ is_language_only(Get(parsed)))
    /\ k_pc' = "parsed"
    /\ UNCHANGED << k_chunks, k_sep >>
    /\ UNCHANGED notSubtagVars

SubtagNext == SubtagParse

SpecSubtags == SubtagInit /\ [][SubtagNext]_vars

\* four ASCII letters; two ASCII letters or three digits
IsScriptChunk(chunk) == Len(chunk) = 4 /\ \A i \in 1..4 : chunk[i] \in AsciiLetters
IsRegionChunk(chunk) ==
    \/ Len(chunk) = 2 /\ \A i \in 1..2 : chunk[i] \in AsciiLetters
    \/ Len(chunk) = 3 /\ \A i \in 1..3 : chunk[i] \in Digits

\* the chunk at a position, the primary at position 0; << "!" >> stands for none
ChunkAt(pos) == IF pos + 1 <= Len(k_chunks) THEN k_chunks[pos + 1] ELSE << "!" >>

\* how many chunks after the primary are recognized
Recognized1 == IsScriptChunk(ChunkAt(1)) \/ IsRegionChunk(ChunkAt(1))
RecognizedCount ==
    IF ~Recognized1 THEN 0
    ELSE IF IsScriptChunk(ChunkAt(1)) /\ IsRegionChunk(ChunkAt(2)) THEN 2
    ELSE 1

\* the chunks of the canonical tag
TagChunks == split(Get(k_lang).tag, "-")

\* C32: script comes only from the chunk at position 1 and region only from
\* a chunk at position 1 or 2; the first chunk that is neither stops the
\* recognition; the tag is primary[-script][-region] followed by the other
\* chunks verbatim, one chunk for each chunk of the text in its order; and
\* is_language_only() holds exactly when the text has one chunk.
C32_SubtagRecognition ==
    k_pc = "parsed" =>
        /\ ~IsNone(k_lang)
        /\ Get(k_lang).script =
              (IF IsScriptChunk(ChunkAt(1)) THEN Some(<< UpperChar(ChunkAt(1)[1]) >> \o lower(Tail(ChunkAt(1))))
               ELSE None)
        /\ Get(k_lang).region =
              (IF IsRegionChunk(ChunkAt(1)) THEN Some(upper(ChunkAt(1)))
               ELSE IF IsScriptChunk(ChunkAt(1)) /\ IsRegionChunk(ChunkAt(2)) THEN Some(upper(ChunkAt(2)))
               ELSE None)
        /\ Len(TagChunks) = Len(k_chunks)
        /\ TagChunks[1] = lower(k_chunks[1])
        /\ \A p \in 2..Len(k_chunks) :
              /\ lower(TagChunks[p]) = lower(k_chunks[p])
              /\ p - 1 > RecognizedCount => TagChunks[p] = k_chunks[p]
        /\ k_only <=> Len(k_chunks) = 1

\* a text whose chunk at position 1 is neither a script nor a region and
\* whose chunk at position 2 looks like a region has been parsed
C32_Witness ==
    /\ k_pc = "parsed"
    /\ Len(k_chunks) = 3
    /\ k_chunks[2] = << "x", "1" >>
    /\ k_chunks[3] = << "u", "s" >>
    /\ Get(k_lang).region = None
    /\ ~k_only

(***************************************************************************)
(* Properties: a copy and its original, with the lists they hold           *)
(***************************************************************************)
MaxCells == 4
MaxListLen == 2
MaxCalls == 4

Objects == { "original", "copy" }
OtherObject(object) == IF object = "original" THEN "copy" ELSE "original"
HeapValues == { << "a" >>, << "b" >> }
KeyOrder == << << "k" >>, << "j" >> >>

\* what a dictionary holds under a key: nothing, a str, or a reference to a
\* list object
NoSlot == [t |-> "none", s |-> << >>, r |-> 0]
StrSlot(text) == [t |-> "s", s |-> text, r |-> 0]
ListSlot(ref) == [t |-> "l", s |-> << >>, r |-> ref]
EmptyDict == [k \in PropKeys |-> NoSlot]
NoCells == [c \in 1..MaxCells |-> << >>]
NoCall == [name |-> "none", target |-> "original", key |-> << >>, n |-> 0]
Call(name, target, key) == [name |-> name, target |-> target, key |-> key, n |-> h_op.n + 1]

\* the number of list objects a dictionary refers to
ListCount(dict) == Cardinality({ k \in PropKeys : dict[k].t = "l" })

HeapInit ==
    /\ h_heap = NoCells
    /\ h_next = 1
    /\ h_maps = [o \in Objects |-> EmptyDict]
    /\ h_copied = FALSE
    /\ h_ret = 0
    /\ h_op = NoCall
    /\ LineIdle
    /\ XmlIdle
    /\ TmxIdle
    /\ LangIdle
    /\ PropsIdle
    /\ PairIdle
    /\ NameIdle
    /\ PairReaderIdle
    /\ CallIdle
    /\ FacadeIdle
    /\ TailIdle
    /\ SubtagIdle
    /\ EventIdle
    /\ RefilterIdle
    /\ RewriteIdle
    /\ ReuseIdle
    /\ ActivityIdle
    /\ ApplyIdle

\* a _set that stores the very list it was given
SetShared(heap, next, slot) == [heap |-> heap, next |-> next, slot |-> slot]

\* Properties._set: the value to store, a fresh copy when it is a list
SetCopied(heap, next, slot) ==
    IF slot.t = "l"
    THEN [heap |-> [heap EXCEPT ![next] = heap[slot.r]], next |-> next + 1, slot |-> ListSlot(next)]
    ELSE [heap |-> heap, next |-> next, slot |-> slot]

\* Properties._set_all: _set for each item of the data, in its order
RECURSIVE SetAll(_, _, _, _, _)
SetAll(heap, next, dict, data, i) ==
    IF i > Len(KeyOrder) THEN [heap |-> heap, next |-> next, dict |-> dict]
    ELSE IF data[KeyOrder[i]].t = "none" THEN SetAll(heap, next, dict, data, i + 1)
    ELSE CHOOSE done \in { SetAll(stored.heap, stored.next, [dict EXCEPT ![KeyOrder[i]] = stored.slot], data, i + 1) :
                           stored \in { SetCopied(heap, next, data[KeyOrder[i]]) } } : TRUE

\* the calls are made on the original alone until the copy exists, and
\* MaxCalls calls are made in all
Targets == IF h_op.n >= MaxCalls THEN { } ELSE IF h_copied THEN Objects ELSE { "original" }

\* copy = Properties(original)
HeapCopy ==
    /\ ~h_copied
    /\ h_op.n < MaxCalls
    /\ h_next + ListCount(h_maps["original"]) <= MaxCells + 1
    /\ \E done \in { SetAll(h_heap, h_next, EmptyDict, h_maps["original"], 1) } :
          /\ h_heap' = done.heap
          /\ h_next' = done.next
          /\ h_maps' = [h_maps EXCEPT !["copy"] = done.dict]
    /\ h_copied' = TRUE
    /\ h_op' = Call("copy", "copy", << >>)
    /\ UNCHANGED h_ret
    /\ UNCHANGED notHeapVars

\* Properties.put
HeapPut ==
    \E target \in Targets, key \in PropKeys, text \in HeapValues :
       LET existing == h_maps[target][key]
       IN /\ CASE existing.t = "none" ->
                    /\ h_maps' = [h_maps EXCEPT ![target][key] = StrSlot(text)]
                    /\ UNCHANGED << h_heap, h_next >>
               [] existing.t = "l" ->
                    /\ Len(h_heap[existing.r]) < MaxListLen + 1
                    /\ h_heap' = [h_heap EXCEPT ![existing.r] = Append(@, text)]
                    /\ UNCHANGED << h_maps, h_next >>
               [] existing.t = "s" ->
                    /\ h_next <= MaxCells
                    /\ h_heap' = [h_heap EXCEPT ![h_next] = << existing.s, text >>]
                    /\ h_next' = h_next + 1
                    /\ h_maps' = [h_maps EXCEPT ![target][key] = ListSlot(h_next)]
          /\ h_op' = Call("put", target, key)
          /\ UNCHANGED << h_copied, h_ret >>
          /\ UNCHANGED notHeapVars

\* Properties.set with a str
HeapSet ==
    \E target \in Targets, key \in PropKeys, text \in HeapValues :
       /\ \E stored \in { SetCopied(h_heap, h_next, StrSlot(text)) } :
             /\ h_heap' = stored.heap
             /\ h_next' = stored.next
             /\ h_maps' = [h_maps EXCEPT ![target][key] = stored.slot]
       /\ h_op' = Call("set", target, key)
       /\ UNCHANGED << h_copied, h_ret >>
       /\ UNCHANGED notHeapVars

\* Properties.remove
HeapRemove ==
    \E target \in Targets, key \in PropKeys :
       /\ h_maps' = [h_maps EXCEPT ![target][key] = NoSlot]
       /\ h_op' = Call("remove", target, key)
       /\ UNCHANGED << h_heap, h_next, h_copied, h_ret >>
       /\ UNCHANGED notHeapVars

\* Properties.values of a key the object holds: a new list each time
HeapValuesOf ==
    \E target \in Targets, key \in PropKeys :
       LET existing == h_maps[target][key]
       IN /\ existing.t # "none"
          /\ h_next <= MaxCells
          /\ h_heap' = [h_heap EXCEPT ![h_next] = IF existing.t = "l" THEN h_heap[existing.r] ELSE << existing.s >>]
          /\ h_ret' = h_next
          /\ h_next' = h_next + 1
          /\ h_op' = Call("values", target, key)
          /\ UNCHANGED << h_maps, h_copied >>
          /\ UNCHANGED notHeapVars

\* the caller appends to the list that values() returned
HeapMutateReturned ==
    /\ h_ret # 0
    /\ h_op.n < MaxCalls
    /\ Len(h_heap[h_ret]) < MaxListLen + 2
    /\ \E text \in HeapValues : h_heap' = [h_heap EXCEPT ![h_ret] = Append(@, text)]
    /\ h_op' = Call("mutate", h_op.target, h_op.key)
    /\ UNCHANGED << h_next, h_maps, h_copied, h_ret >>
    /\ UNCHANGED notHeapVars

HeapNext ==
    \/ HeapCopy
    \/ HeapPut
    \/ HeapSet
    \/ HeapRemove
    \/ HeapValuesOf
    \/ HeapMutateReturned

SpecHeap == HeapInit /\ [][HeapNext]_vars

\* what an object holds, the lists by their contents
Contents(object) ==
    [k \in PropKeys |->
        IF h_maps[object][k].t = "l" THEN [t |-> "l", v |-> h_heap[h_maps[object][k].r]]
        ELSE [t |-> h_maps[object][k].t, v |-> h_maps[object][k].s]]

\* C33: once the copy exists, a put, set or remove on one of the two objects
\* leaves the contents of the other as they were (also a put that appends to
\* a list), and appending to a list that values() returned leaves the
\* contents of both as they were.
C33_CopiesIndependent ==
    [][ /\ \A target \in Objects :
              (h_copied /\ h_op'.name \in { "put", "set", "remove" } /\ h_op'.target = target) =>
                  Contents(OtherObject(target))' = Contents(OtherObject(target))
        /\ h_op'.name = "mutate" =>
              /\ Contents("original")' = Contents("original")
              /\ Contents("copy")' = Contents("copy") ]_vars

\* the copy was made of an original that held a list, and a put has since
\* appended to the list of one of them
C33_Witness ==
    /\ h_copied
    /\ h_op.name = "put"
    /\ h_maps["original"][h_op.key].t = "l"
    /\ h_maps["copy"][h_op.key].t = "l"
    /\ Len(h_heap[h_maps["original"][h_op.key].r]) # Len(h_heap[h_maps["copy"][h_op.key].r])

(***************************************************************************)
(* TMXReader.__iter__: the locals of the loop, one parser event at a time  *)
(***************************************************************************)
MaxEvents == 15
MaxDepth == 3

\* the documents carry texts that tell where they stand: the attributes and
\* texts inside the n-th <tu> element are the digit n, those outside any
\* <tu> the digit 0, and the text of a <prop> whose parent is <header> is "h"
EntryLabel(n) == << DigitChars[n + 1] >>
HeaderLabel == << "h" >>
PropType == << "p" >>

Element(tag, serial) == [tag |-> tag, elem |-> serial]
NoEvent == [ev |-> "none", tag |-> "none"]
Event(ev, tag) == [ev |-> ev, tag |-> tag]

\* the innermost open <tu> element, 0 outside any
RECURSIVE EnclosingTu(_)
EnclosingTu(stack) ==
    IF Len(stack) = 0 THEN 0
    ELSE IF stack[Len(stack)].tag = "tu" THEN stack[Len(stack)].elem
    ELSE EnclosingTu(SubSeq(stack, 1, Len(stack) - 1))

\* stack[-2][0] if len(stack) > 1 else None
ParentTag(stack) == IF Len(stack) > 1 THEN stack[Len(stack) - 1].tag ELSE "none"

EventInit ==
    /\ e_stack = << >>
    /\ e_tu_attrs = NoAttrs
    /\ e_tu_properties = None
    /\ e_tuv_current = None
    /\ e_tuvs = << >>
    /\ e_header_properties = P_empty
    /\ e_records = << >>
    /\ e_serial = 0
    /\ e_n = 0
    /\ e_last = NoEvent
    /\ LineIdle
    /\ XmlIdle
    /\ TmxIdle
    /\ LangIdle
    /\ PropsIdle
    /\ PairIdle
    /\ NameIdle
    /\ PairReaderIdle
    /\ CallIdle
    /\ FacadeIdle
    /\ TailIdle
    /\ SubtagIdle
    /\ HeapIdle
    /\ RefilterIdle
    /\ RewriteIdle
    /\ ReuseIdle
    /\ ActivityIdle
    /\ ApplyIdle

\* start of <header>: the document's header names no source language
EventStartHeader ==
    /\ e_n < MaxEvents
    /\ Len(e_stack) < MaxDepth
    /\ e_stack' = Append(e_stack, Element("header", 0))
    /\ e_n' = e_n + 1
    /\ e_last' = Event("start", "header")
    /\ UNCHANGED << e_tu_attrs, e_tu_properties, e_tuv_current, e_tuvs, e_header_properties, e_records, e_serial >>
    /\ UNCHANGED notEventVars

\* the <tu> elements of the documents carry attributes in turn: the first
\* does, the second does not
Attributed(serial) == serial % 2 = 1

\* start of <tu>, with or without its attributes
EventStartTu ==
    /\ e_n < MaxEvents
    /\ Len(e_stack) < MaxDepth
    /\ e_serial < 9
    /\ e_tu_attrs' = IF Attributed(e_serial + 1)
                        THEN [tuid |-> Some(EntryLabel(e_serial + 1)), srclang |-> None,
                              creationdate |-> Some(EntryLabel(e_serial + 1)),
                              changedate |-> Some(EntryLabel(e_serial + 1))]
                        ELSE NoAttrs
    /\ e_tu_properties' = Some(P_empty)
    /\ e_tuvs' = << >>
    /\ e_serial' = e_serial + 1
    /\ e_stack' = Append(e_stack, Element("tu", e_serial + 1))
    /\ e_n' = e_n + 1
    /\ e_last' = Event("start", "tu")
    /\ UNCHANGED << e_tuv_current, e_header_properties, e_records >>
    /\ UNCHANGED notEventVars

\* start of <tuv>: without a language, or an undated "en", or a dated "fr"
EventStartTuv ==
    /\ e_n < MaxEvents
    /\ Len(e_stack) < MaxDepth
    /\ \E lang \in { None, Some(S_en), Some(S_fr) } :
          e_tuv_current' =
              Some([lang |-> _get_lang(lang, None),
                    creationdate |-> IF lang = Some(S_fr) THEN Some(EntryLabel(EnclosingTu(e_stack))) ELSE None,
                    changedate |-> None,
                    text |-> None])
    /\ e_stack' = Append(e_stack, Element("tuv", 0))
    /\ e_n' = e_n + 1
    /\ e_last' = Event("start", "tuv")
    /\ UNCHANGED << e_tu_attrs, e_tu_properties, e_tuvs, e_header_properties, e_records, e_serial >>
    /\ UNCHANGED notEventVars

\* start and end of a <prop> that holds text only
EventProp ==
    /\ e_n + 1 < MaxEvents
    /\ \E typed \in BOOLEAN :
          LET stack == Append(e_stack, Element("prop", 0))
              parent_tag == ParentTag(stack)
              prop_val == IF parent_tag = "header" THEN HeaderLabel ELSE EntryLabel(EnclosingTu(e_stack))
          IN /\ e_header_properties' =
                    IF typed /\ parent_tag = "header" THEN put(e_header_properties, PropType, prop_val)
                    ELSE e_header_properties
             /\ e_tu_properties' =
                    IF typed /\ parent_tag = "tu" /\ ~IsNone(e_tu_properties)
                    THEN Some(put(Get(e_tu_properties), PropType, prop_val))
                    ELSE e_tu_properties
    /\ e_n' = e_n + 2
    /\ e_last' = Event("end", "prop")
    /\ UNCHANGED << e_stack, e_tu_attrs, e_tuv_current, e_tuvs, e_records, e_serial >>
    /\ UNCHANGED notEventVars

\* start and end of a <seg> that holds text only
EventSeg ==
    /\ e_n + 1 < MaxEvents
    /\ LET stack == Append(e_stack, Element("seg", 0))
       IN e_tuv_current' =
              IF ParentTag(stack) = "tuv" /\ ~IsNone(e_tuv_current)
              THEN Some([Get(e_tuv_current) EXCEPT
                            !.text = Some(_normalize_segment(EntryLabel(EnclosingTu(e_stack))))])
              ELSE e_tuv_current
    /\ e_n' = e_n + 2
    /\ e_last' = Event("end", "seg")
    /\ UNCHANGED << e_stack, e_tu_attrs, e_tu_properties, e_tuvs, e_header_properties, e_records, e_serial >>
    /\ UNCHANGED notEventVars

\* end of <header>
EventEndHeader ==
    /\ e_n < MaxEvents
    /\ Len(e_stack) > 0 /\ e_stack[Len(e_stack)].tag = "header"
    /\ e_stack' = SubSeq(e_stack, 1, Len(e_stack) - 1)
    /\ e_n' = e_n + 1
    /\ e_last' = Event("end", "header")
    /\ UNCHANGED << e_tu_attrs, e_tu_properties, e_tuv_current, e_tuvs, e_header_properties, e_records, e_serial >>
    /\ UNCHANGED notEventVars

\* end of <tuv>
EventEndTuv ==
    /\ e_n < MaxEvents
    /\ Len(e_stack) > 0 /\ e_stack[Len(e_stack)].tag = "tuv"
    /\ e_tuvs' = IF IsNone(e_tuv_current) \/ ~KeepsTuv(Get(e_tuv_current)) THEN e_tuvs
                 ELSE Append(e_tuvs, Get(e_tuv_current))
    /\ e_tuv_current' = None
    /\ e_stack' = SubSeq(e_stack, 1, Len(e_stack) - 1)
    /\ e_n' = e_n + 1
    /\ e_last' = Event("end", "tuv")
    /\ UNCHANGED << e_tu_attrs, e_tu_properties, e_header_properties, e_records, e_serial >>
    /\ UNCHANGED notEventVars

\* an end of <tu> that keeps the variants it collected
TuvsKept(variants) == variants

\* `tuvs = []` at the end of <tu>
TuvsAfterTu(variants) == << >>

\* end of <tu>: the units of the element, then the locals are reset
EventEndTu ==
    /\ e_n < MaxEvents
    /\ Len(e_stack) > 0 /\ e_stack[Len(e_stack)].tag = "tu"
    /\ \E ended \in { EndOfTu(e_tu_attrs, None, e_tuvs, e_tu_properties) } :
          e_records' = e_records \o [i \in 1..Len(ended.records) |->
                                        [unit |-> ended.records[i], entry |-> e_stack[Len(e_stack)].elem]]
    /\ e_tu_attrs' = NoAttrs
    /\ e_tu_properties' = None
    /\ e_tuvs' = TuvsAfterTu(e_tuvs)
    /\ e_stack' = SubSeq(e_stack, 1, Len(e_stack) - 1)
    /\ e_n' = e_n + 1
    /\ e_last' = Event("end", "tu")
    /\ UNCHANGED << e_tuv_current, e_header_properties, e_serial >>
    /\ UNCHANGED notEventVars

EventNext ==
    \/ EventStartHeader
    \/ EventStartTu
    \/ EventStartTuv
    \/ EventProp
    \/ EventSeg
    \/ EventEndHeader
    \/ EventEndTuv
    \/ EventEndTu

SpecEvents == EventInit /\ [][EventNext]_vars

\* each value the multimap holds is that text
ValuesAre(properties, text) ==
    \A i \in 1..Len(properties.map) :
       IF properties.map[i][2].t = "a"
       THEN \A j \in 1..Len(properties.map[i][2].v) : properties.map[i][2].v[j] = JStr(text)
       ELSE properties.map[i][2] = JStr(text)

OwnOrAbsent(o, text) == IsNone(o) \/ o = Some(text)

\* C34: the id, the dates, the properties and the two texts of every unit
\* are those of the <tu> element whose end yielded it; after the end of a
\* <tu> the attributes, the variants and the properties of the loop are
\* empty; and the header properties hold texts of <prop> children of <header>
\* only.
C34_PerEntryState ==
    /\ \A i \in 1..Len(e_records) :
          LET own == EntryLabel(e_records[i].entry)
              tu == e_records[i].unit
          IN /\ OwnOrAbsent(tu.tuid, own)
             /\ OwnOrAbsent(tu.creation_date, own)
             /\ OwnOrAbsent(tu.change_date, own)
             /\ tu.sentence = own
             /\ tu.translation = own
             /\ IsNone(tu.properties) \/ ValuesAre(Get(tu.properties), own)
    /\ e_last = Event("end", "tu") =>
          (e_tu_attrs = NoAttrs /\ e_tuvs = << >> /\ IsNone(e_tu_properties))
    /\ ValuesAre(e_header_properties, HeaderLabel)

\* a <tu> with attributes yielded nothing, and the <tu> after it, which has
\* no attributes, yielded a unit with a property
C34_Witness ==
    /\ Len(e_records) = 1
    /\ e_records[1].entry = 2
    /\ e_last = Event("end", "tu")
    /\ ~IsNone(e_records[1].unit.properties)
    /\ Len(Get(e_records[1].unit.properties).map) = 1
    /\ IsNone(e_records[1].unit.tuid)

(***************************************************************************)
(* Re-filtering: the units a JTMReader yields, written by a JTMWriter      *)
(***************************************************************************)
MaxRefiltered == 3

\* the units of the file that is read: those a writer could write
RefilterPool == { tu \in RecordPool : Encodable(RecordLine(tu)) }

RefilterInit ==
    /\ g_lines \in { [i \in 1..Len(written) |-> RecordLine(written[i])] :
                       written \in SeqsUpTo(RefilterPool, MaxRefiltered) }
    /\ g_line = << >>
    /\ g_tu = None
    /\ g_out = << >>
    /\ g_counted = 0
    /\ g_pc = "reading"
    /\ g_exc = "none"
    /\ LineIdle
    /\ XmlIdle
    /\ TmxIdle
    /\ LangIdle
    /\ PropsIdle
    /\ PairIdle
    /\ NameIdle
    /\ PairReaderIdle
    /\ CallIdle
    /\ FacadeIdle
    /\ TailIdle
    /\ SubtagIdle
    /\ HeapIdle
    /\ EventIdle
    /\ RewriteIdle
    /\ ReuseIdle
    /\ ActivityIdle
    /\ ApplyIdle

\* JTMReader.__iter__ yields the unit of the next line
RefilterYield ==
    /\ g_pc = "reading"
    /\ Len(g_lines) > 0
    /\ g_line' = g_lines[1]
    /\ g_lines' = Tail(g_lines)
    /\ \E tu \in { ReadRecord(g_lines[1]) } :
          IF IsNone(tu)
          THEN /\ g_pc' = "failed"
               /\ g_exc' = "reader"
               /\ UNCHANGED g_tu
          ELSE /\ g_tu' = tu
               /\ g_pc' = "yielded"
               /\ UNCHANGED g_exc
    /\ UNCHANGED << g_out, g_counted >>
    /\ UNCHANGED notRefilterVars

\* whether to_json raises AttributeError at self.properties.map: a dict has
\* no attribute map
MapRaises(tu) == ~IsNone(tu.properties) /\ Get(tu.properties).kind # "Properties"

\* JTMWriter.write(tu) with the unit as it was yielded
RefilterWrite ==
    /\ g_pc = "yielded"
    /\ g_counted' = g_counted + 1
    /\ IF MapRaises(Get(g_tu))
       THEN /\ g_pc' = "failed"
            /\ g_exc' = "AttributeError"
            /\ UNCHANGED g_out
       ELSE /\ g_out' = Append(g_out, RecordLine(Get(g_tu)))
            /\ g_pc' = "reading"
            /\ UNCHANGED g_exc
    /\ UNCHANGED << g_lines, g_line, g_tu >>
    /\ UNCHANGED notRefilterVars

\* the reader's file has no further line
RefilterEnd ==
    /\ g_pc = "reading"
    /\ Len(g_lines) = 0
    /\ g_pc' = "done"
    /\ UNCHANGED << g_lines, g_line, g_tu, g_out, g_counted, g_exc >>
    /\ UNCHANGED notRefilterVars

RefilterNext ==
    \/ RefilterYield
    \/ RefilterWrite
    \/ RefilterEnd

SpecRefilter == RefilterInit /\ [][RefilterNext]_vars

\* the unit last yielded was written, and the line written is the line read
WrittenAsRead ==
    (g_pc \in { "reading", "done" } /\ ~IsNone(g_tu)) =>
        (g_out # << >> /\ g_out[Len(g_out)] = g_line /\ Len(g_out) = g_counted)

\* C35: every unit the reader yields has properties that are None or a
\* Properties object, and write(tu) with the unit as yielded raises nothing
\* and writes a line equal to the line the unit was read from.
C35_Refiltering ==
    /\ ~IsNone(g_tu) =>
          (IsNone(Get(g_tu).properties) \/ Get(Get(g_tu).properties).kind = "Properties")
    /\ g_exc = "none"
    /\ WrittenAsRead

\* the same of the units whose line carries no properties
C35_WithoutProperties ==
    (~IsNone(g_tu) /\ IsNone(Get(g_tu).properties)) => (g_exc = "none" /\ WrittenAsRead)

(***************************************************************************)
(* JTMCorpus(path).writer() on a path that holds a closed corpus           *)
(***************************************************************************)
MaxRewritten == 2

\* the counter after write was called with each of the units
RECURSIVE CounterAfter(_, _)
CounterAfter(written, counter) ==
    IF Len(written) = 0 THEN counter
    ELSE CounterAfter(Tail(written), CounterAfterWrite(counter, written[1]))

\* the file a writer scope with those properties and units leaves
ClosedCorpus(written, properties) ==
    Concat([i \in 1..Len(written) |-> RecordLine(written[i])])
    \o FooterLine(CounterAfter(written, << >>), properties)

ClosedCorpora ==
    { ClosedCorpus(written, properties) :
        written \in SeqsUpTo(RefilterPool, 1), properties \in PropertiesChoices }

RewriteInit ==
    /\ y_disk \in ClosedCorpora
    /\ y_before = y_disk
    /\ y_footer = None
    /\ y_properties = None
    /\ y_counter = << >>
    /\ y_pc = "closed"
    /\ LineIdle
    /\ XmlIdle
    /\ TmxIdle
    /\ LangIdle
    /\ PropsIdle
    /\ PairIdle
    /\ NameIdle
    /\ PairReaderIdle
    /\ CallIdle
    /\ FacadeIdle
    /\ TailIdle
    /\ SubtagIdle
    /\ HeapIdle
    /\ EventIdle
    /\ RefilterIdle
    /\ ReuseIdle
    /\ ActivityIdle
    /\ ApplyIdle

\* a writer that starts from the properties handed in alone
PropertiesGiven(properties, stored) == properties

\* `properties or self.properties`: a Properties object is truthy
PropertiesOr(properties, stored) == IF IsNone(properties) THEN stored ELSE properties

\* JTMCorpus.writer() with no properties: the handle parses the footer of the
\* file for self.properties, and JTMWriter.__init__ opens nothing
RewriteObtain ==
    /\ y_pc = "closed"
    /\ \E footer \in { _parse_footer(y_disk) } :
          /\ ~IsNone(footer)
          /\ y_footer' = footer
          /\ y_properties' = PropertiesOr(None, Get(footer).properties)
    /\ y_counter' = << >>
    /\ y_pc' = "obtained"
    /\ UNCHANGED << y_disk, y_before >>
    /\ UNCHANGED notRewriteVars

\* JTMWriter.__enter__: open(path, 'w') empties the file
RewriteEnter ==
    /\ y_pc = "obtained"
    /\ y_disk' = << >>
    /\ y_pc' = "open"
    /\ UNCHANGED << y_before, y_footer, y_properties, y_counter >>
    /\ UNCHANGED notRewriteVars

\* JTMWriter.write
RewriteWrite ==
    /\ y_pc = "open"
    /\ CounterTotal(y_counter) < MaxRewritten
    /\ \E tu \in RefilterPool :
          /\ y_counter' = CounterAfterWrite(y_counter, tu)
          /\ y_disk' = y_disk \o RecordLine(tu)
    /\ UNCHANGED << y_before, y_footer, y_properties, y_pc >>
    /\ UNCHANGED notRewriteVars

\* JTMWriter.__exit__
RewriteExit ==
    /\ y_pc = "open"
    /\ y_disk' = y_disk \o FooterLine(y_counter, y_properties)
    /\ y_pc' = "rewritten"
    /\ UNCHANGED << y_before, y_footer, y_properties, y_counter >>
    /\ UNCHANGED notRewriteVars

RewriteNext ==
    \/ RewriteObtain
    \/ RewriteEnter
    \/ RewriteWrite
    \/ RewriteExit

SpecRewrite == RewriteInit /\ [][RewriteNext]_vars

\* JTMCorpus(path).properties of a fresh handle on a file with that text
PropertiesOnDisk(content) == Get(_parse_footer(content)).properties

\* C36: until the writer obtained from the handle is opened, the file is the
\* closed corpus it was; after the writer was opened, written to and closed,
\* the properties of the footer are those of the footer of the closed corpus.
C36_RewriteKeepsMetadata ==
    /\ y_pc \in { "closed", "obtained" } => y_disk = y_before
    /\ y_pc = "rewritten" =>
          /\ ~IsNone(_parse_footer(y_disk))
          /\ PropertiesOnDisk(y_disk) = PropertiesOnDisk(y_before)

\* a corpus whose footer held a property was rewritten with one unit of
\* another direction than it held
C36_Witness ==
    /\ y_pc = "rewritten"
    /\ ~IsNone(PropertiesOnDisk(y_before))
    /\ get_total_count(Get(_parse_footer(y_disk))) = 1
    /\ Get(_parse_footer(y_disk)).counter # Get(_parse_footer(y_before)).counter

(***************************************************************************)
(* One JTMWriter object, opened again after its scope closed               *)
(***************************************************************************)
MaxScopes == 2
MaxReused == 3

\* JTMWriter.__init__: nothing opened, an empty counter
ReuseInit ==
    /\ z_disk = << >>
    /\ z_file = "none"
    /\ z_counter = << >>
    /\ z_scopes = 0
    /\ LineIdle
    /\ XmlIdle
    /\ TmxIdle
    /\ LangIdle
    /\ PropsIdle
    /\ PairIdle
    /\ NameIdle
    /\ PairReaderIdle
    /\ CallIdle
    /\ FacadeIdle
    /\ TailIdle
    /\ SubtagIdle
    /\ HeapIdle
    /\ EventIdle
    /\ RefilterIdle
    /\ RewriteIdle
    /\ ActivityIdle
    /\ ApplyIdle

\* JTMWriter.__enter__: open(path, 'w'); self._counter is left as it is
ReuseEnter ==
    /\ z_file \in { "none", "closed" }
    /\ z_scopes < MaxScopes
    /\ z_disk' = << >>
    /\ z_file' = "open"
    /\ z_scopes' = z_scopes + 1
    /\ UNCHANGED z_counter
    /\ UNCHANGED notReuseVars

\* JTMWriter.write
ReuseWrite ==
    /\ z_file = "open"
    /\ CounterTotal(z_counter) < MaxReused
    /\ \E tu \in RefilterPool :
          /\ z_counter' = CounterAfterWrite(z_counter, tu)
          /\ z_disk' = z_disk \o RecordLine(tu)
    /\ UNCHANGED << z_file, z_scopes >>
    /\ UNCHANGED notReuseVars

\* JTMWriter.__exit__
ReuseExit ==
    /\ z_file = "open"
    /\ z_disk' = z_disk \o FooterLine(z_counter, None)
    /\ z_file' = "closed"
    /\ UNCHANGED << z_counter, z_scopes >>
    /\ UNCHANGED notReuseVars

ReuseNext ==
    \/ ReuseEnter
    \/ ReuseWrite
    \/ ReuseExit

SpecReuse == ReuseInit /\ [][ReuseNext]_vars

\* the record lines of the file whose unit has that direction
RecordLinesOf(content, direction) ==
    { i \in 1..Len(SplitLines(content)) :
        /\ ~IsFooterLine(SplitLines(content)[i])
        /\ ~IsNone(ReadRecord(SplitLines(content)[i]))
        /\ DirectionEq(Get(ReadRecord(SplitLines(content)[i])).language, direction) }

\* the footer of the file counts, for each direction, the record lines of
\* the file
FooterCountsLines ==
    /\ ~IsNone(_parse_footer(z_disk))
    /\ \A tu \in RefilterPool :
          CounterGet(Get(_parse_footer(z_disk)).counter, tu.language)
              = Cardinality(RecordLinesOf(z_disk, tu.language))

\* C37: whenever a scope of the writer has closed, the footer of the file
\* counts the record lines of the file, which are those of that scope.
C37_WriterReuse ==
    z_file = "closed" => FooterCountsLines

\* the same after the first scope of the writer
C37_FirstScope ==
    (z_file = "closed" /\ z_scopes = 1) => FooterCountsLines

(***************************************************************************)
(* PipelineActivity: runs of one activity class on one working directory   *)
(***************************************************************************)
MaxSteps == 3
MaxRuns == 3

StepIndexes == 0..(MaxSteps - 1)

\* the paths: the input of the pipeline, the output path given to the
\* activity, and the directory of a step inside the working directory
InputPath == << "input", 0 >>
OutputPath == << "output", 0 >>
StepDir(i) == << "step", i >>

\* what the loop of a run did last, with the number of the run and whether the
\* run before it failed
NoStepYet == [ev |-> "none", step |-> 0 - 1, input |-> InputPath, run |-> 0, resumed |-> FALSE]

\* the state of an activity in a directory without state.json
DefaultState == [step_no |-> 0 - 1, pipeline |-> None]

ActivityInit ==
    /\ a_config \in [arg_count : [StepIndexes -> { 1, 2 }], output_path : BOOLEAN]
    /\ a_file = None
    /\ a_state = DefaultState
    /\ a_delete = FALSE
    /\ a_i = 0
    /\ a_pc = "none"
    /\ a_runs = 0
    /\ a_last = NoStepYet
    /\ a_saved = { }
    /\ a_produced = { }
    /\ a_overridden = FALSE
    /\ LineIdle
    /\ XmlIdle
    /\ TmxIdle
    /\ LangIdle
    /\ PropsIdle
    /\ PairIdle
    /\ NameIdle
    /\ PairReaderIdle
    /\ CallIdle
    /\ FacadeIdle
    /\ TailIdle
    /\ SubtagIdle
    /\ HeapIdle
    /\ EventIdle
    /\ RefilterIdle
    /\ RewriteIdle
    /\ ReuseIdle
    /\ ApplyIdle

\* StatefulNamespace(path, step_no=-1): the defaults, then the keys of the file
LoadedState == IF IsNone(a_file) THEN DefaultState ELSE Get(a_file)

\* `if start_step is not None: self.state.step_no = start_step`
StartStep(state, start_step) ==
    IF IsNone(start_step) THEN state ELSE [state EXCEPT !.step_no = Get(start_step)]

\* PipelineActivity(args, wdir=..., start_step=..., delete_on_exit=...) after
\* no run, or after a run that failed or finished
ActivityNew ==
    /\ a_pc \in { "none", "failed", "finished" }
    /\ a_runs < MaxRuns
    /\ \E start_step \in { None } \cup { Some(s) : s \in (0 - 1)..(MaxSteps - 1) } :
          /\ a_state' = StartStep(LoadedState, start_step)
          /\ a_overridden' = (a_overridden \/ ~IsNone(start_step))
    /\ a_delete' \in BOOLEAN
    /\ a_runs' = a_runs + 1
    /\ a_pc' = "constructed"
    /\ a_i' = 0
    /\ a_last' = [NoStepYet EXCEPT !.run = a_runs + 1, !.resumed = (a_pc = "failed")]
    /\ UNCHANGED << a_config, a_file, a_saved, a_produced >>
    /\ UNCHANGED notActivityVars

\* run, before the loop: `self.state.pipeline = self.state.pipeline or []`
ActivityRun ==
    /\ a_pc = "constructed"
    /\ a_state' = [a_state EXCEPT !.pipeline = IF IsNone(@) THEN Some(<< >>) ELSE @]
    /\ a_pc' = "running"
    /\ UNCHANGED << a_config, a_file, a_delete, a_i, a_runs, a_last, a_saved, a_produced, a_overridden >>
    /\ UNCHANGED notActivityVars

\* input_path of _run_step
StepInput(state) ==
    IF Len(Get(state.pipeline)) = 0 THEN InputPath ELSE Get(state.pipeline)[Len(Get(state.pipeline))]

\* output_path of _run_step: None for a step that takes the input alone
StepOutput(i) ==
    IF a_config.arg_count[i] > 1
    THEN (IF i = MaxSteps - 1 /\ a_config.output_path THEN Some(OutputPath) ELSE Some(StepDir(i)))
    ELSE None

\* one round of the loop of run: the step is reported SKIPPED, or _run_step
\* invokes it and it returns, raises SkipException or raises something else
ActivityStep ==
    /\ a_pc = "running"
    /\ a_i < MaxSteps
    /\ IF a_state.step_no < a_i
       THEN \E outcome \in { "done", "skip", "raise" } :
               /\ a_last' = [a_last EXCEPT !.ev = "invoked", !.step = a_i, !.input = StepInput(a_state)]
               /\ IF outcome = "raise"
                  THEN /\ a_pc' = "failed"
                       /\ UNCHANGED << a_state, a_file, a_i, a_saved, a_produced >>
                  ELSE \E appended \in { IF outcome = "done" /\ ~IsNone(StepOutput(a_i))
                                         THEN Some(Append(Get(a_state.pipeline), Get(StepOutput(a_i))))
                                         ELSE a_state.pipeline } :
                          /\ a_state' = [step_no |-> a_i, pipeline |-> appended]
                          /\ a_file' = Some(a_state')
                          /\ a_saved' = a_saved \cup { a_i }
                          /\ a_produced' = IF appended # a_state.pipeline THEN a_produced \cup { a_i }
                                           ELSE a_produced \ { a_i }
                          /\ a_i' = a_i + 1
                          /\ UNCHANGED a_pc
       ELSE /\ a_last' = [a_last EXCEPT !.ev = "skipped", !.step = a_i, !.input = InputPath]
            /\ a_i' = a_i + 1
            /\ UNCHANGED << a_state, a_file, a_pc, a_saved, a_produced >>
    /\ UNCHANGED << a_config, a_delete, a_runs, a_overridden >>
    /\ UNCHANGED notActivityVars

\* run, after the loop: with delete_on_exit the working directory is removed
ActivityFinish ==
    /\ a_pc = "running"
    /\ a_i = MaxSteps
    /\ a_pc' = "finished"
    /\ IF a_delete
       THEN a_file' = None /\ a_saved' = { } /\ a_produced' = { }
       ELSE UNCHANGED << a_file, a_saved, a_produced >>
    /\ UNCHANGED << a_config, a_state, a_delete, a_i, a_runs, a_last, a_overridden >>
    /\ UNCHANGED notActivityVars

ActivityNext ==
    \/ ActivityNew
    \/ ActivityRun
    \/ ActivityStep
    \/ ActivityFinish

SpecActivity == ActivityInit /\ [][ActivityNext]_vars

\* the output path of the last step before step i whose completion was saved
\* with an output path, the input of the pipeline if there is none
ExpectedInput(i) ==
    IF \E j \in a_produced : j < i
    THEN LET last == CHOOSE j \in a_produced : j < i /\ \A k \in a_produced : k < i => k <= j
         IN IF a_config.arg_count[last] > 1 /\ last = MaxSteps - 1 /\ a_config.output_path
            THEN OutputPath ELSE StepDir(last)
    ELSE InputPath

\* the step index of state.json, -1 when there is no such file
SavedIndex == IF IsNone(a_file) THEN 0 - 1 ELSE Get(a_file).step_no

\* one step of the runs, as checkpointing has it: the loop handles the steps
\* in their order; the step index in state.json does not decrease; and in a
\* run after a failed one a step whose completion was saved is not invoked,
\* the step invoked is the one after the saved index, and it gets the
\* expected input
Checkpointed ==
    /\ (a_last'.run = a_last.run /\ a_last' # a_last) => a_last'.step = a_last.step + 1
    /\ (~IsNone(a_file) /\ ~IsNone(a_file')) => Get(a_file').step_no >= Get(a_file).step_no
    /\ (a_last' # a_last /\ a_last'.ev = "invoked" /\ a_last'.resumed) =>
          /\ a_last'.step \notin a_saved
          /\ a_last'.step = SavedIndex + 1
          /\ a_last'.input = ExpectedInput(a_last'.step)

\* C38: in every run of the activity on the directory the steps are handled
\* in declaration order and the saved step index only grows; in a run after a
\* failed one, the steps whose completion was saved are reported SKIPPED and
\* not invoked, and the first step invoked is the one after the saved index,
\* with the output path of the last completed step that produced one (or the
\* input of the pipeline) as its input.
C38_Checkpointing == [][Checkpointed]_vars

\* the same of the activities that were given no start_step
C38_WithoutStartStep == [][~a_overridden' => Checkpointed]_vars

(***************************************************************************)
(* mp_apply: the loader thread, the job queue, the pool and the caller     *)
(***************************************************************************)
MaxItems == 3
MaxQueue == 2

\* an item of the generator: its position, and whether its value is None
Item(position, isnone) == [id |-> position, isnone |-> isnone]

\* the None the loader puts after the last item
Sentinel == Item(0, TRUE)

ApplyInputs ==
    { [i \in 1..Len(flags) |-> Item(i, flags[i])] : flags \in SeqsUpTo(BOOLEAN, MaxItems) }

ApplyInit ==
    /\ n_items \in ApplyInputs
    /\ n_input = n_items
    /\ n_capacity \in 1..MaxQueue
    /\ n_ordered \in BOOLEAN
    /\ n_jobs = << >>
    /\ n_loader = "running"
    /\ n_feeder = "running"
    /\ n_tasks = << >>
    /\ n_done = { }
    /\ n_yielded = << >>
    /\ n_main = "iterating"
    /\ LineIdle
    /\ XmlIdle
    /\ TmxIdle
    /\ LangIdle
    /\ PropsIdle
    /\ PairIdle
    /\ NameIdle
    /\ PairReaderIdle
    /\ CallIdle
    /\ FacadeIdle
    /\ TailIdle
    /\ SubtagIdle
    /\ HeapIdle
    /\ EventIdle
    /\ RefilterIdle
    /\ RewriteIdle
    /\ ReuseIdle
    /\ ActivityIdle

\* loader: jobs_.put(args, block=True) returns once the queue has room
LoaderPut ==
    /\ n_loader = "running"
    /\ Len(n_input) > 0
    /\ Len(n_jobs) < n_capacity
    /\ n_jobs' = Append(n_jobs, n_input[1])
    /\ n_input' = Tail(n_input)
    /\ UNCHANGED << n_items, n_capacity, n_ordered, n_loader, n_feeder, n_tasks, n_done, n_yielded, n_main >>
    /\ UNCHANGED notApplyVars

\* loader: jobs_.put(None, block=True) after the last item, and the thread ends
LoaderSentinel ==
    /\ n_loader = "running"
    /\ Len(n_input) = 0
    /\ Len(n_jobs) < n_capacity
    /\ n_jobs' = Append(n_jobs, Sentinel)
    /\ n_loader' = "finished"
    /\ UNCHANGED << n_items, n_input, n_capacity, n_ordered, n_feeder, n_tasks, n_done, n_yielded, n_main >>
    /\ UNCHANGED notApplyVars

\* iter(jobs.get, None): the iterator ends when jobs.get() returns a value
\* equal to None
EndsIteration(job) == job.isnone

\* the pool's task thread takes the next value of iter(jobs.get, None)
FeederGet ==
    /\ n_feeder = "running"
    /\ Len(n_jobs) > 0
    /\ n_jobs' = Tail(n_jobs)
    /\ IF EndsIteration(n_jobs[1])
       THEN n_feeder' = "stopped" /\ UNCHANGED n_tasks
       ELSE n_tasks' = Append(n_tasks, n_jobs[1].id) /\ UNCHANGED n_feeder
    /\ UNCHANGED << n_items, n_input, n_capacity, n_ordered, n_loader, n_done, n_yielded, n_main >>
    /\ UNCHANGED notApplyVars

\* a worker of the pool computes fn of a task
WorkerRun ==
    /\ n_main = "iterating"
    /\ \E task \in (1..Len(n_tasks)) \ n_done : n_done' = n_done \cup { task }
    /\ UNCHANGED << n_items, n_input, n_capacity, n_ordered, n_jobs, n_loader, n_feeder, n_tasks, n_yielded,
                    n_main >>
    /\ UNCHANGED notApplyVars

\* the tasks whose result was yielded
Yielded == { n_yielded[k] : k \in 1..Len(n_yielded) }

\* yield from imap_f(...): imap gives the results in the order of the tasks,
\* imap_unordered as they are computed
MainYield ==
    /\ n_main = "iterating"
    /\ \E task \in n_done \ Yielded :
          /\ n_ordered => task = Len(n_yielded) + 1
          /\ n_yielded' = Append(n_yielded, task)
    /\ UNCHANGED << n_items, n_input, n_capacity, n_ordered, n_jobs, n_loader, n_feeder, n_tasks, n_done,
                    n_main >>
    /\ UNCHANGED notApplyVars

\* the iterator of the pool is exhausted: the with block ends
MainExitPool ==
    /\ n_main = "iterating"
    /\ n_feeder = "stopped"
    /\ Len(n_yielded) = Len(n_tasks)
    /\ n_main' = "joining"
    /\ UNCHANGED << n_items, n_input, n_capacity, n_ordered, n_jobs, n_loader, n_feeder, n_tasks, n_done,
                    n_yielded >>
    /\ UNCHANGED notApplyVars

\* loader_thread.join() returns when the loader has ended
MainJoin ==
    /\ n_main = "joining"
    /\ n_loader = "finished"
    /\ n_main' = "returned"
    /\ UNCHANGED << n_items, n_input, n_capacity, n_ordered, n_jobs, n_loader, n_feeder, n_tasks, n_done,
                    n_yielded >>
    /\ UNCHANGED notApplyVars

ApplyNext ==
    \/ LoaderPut
    \/ LoaderSentinel
    \/ FeederGet
    \/ WorkerRun
    \/ MainYield
    \/ MainExitPool
    \/ MainJoin

\* every thread that can take a step is scheduled
SpecApply ==
    /\ ApplyInit
    /\ [][ApplyNext]_vars
    /\ WF_vars(LoaderPut) /\ WF_vars(LoaderSentinel) /\ WF_vars(FeederGet) /\ WF_vars(WorkerRun)
    /\ WF_vars(MainYield) /\ WF_vars(MainExitPool) /\ WF_vars(MainJoin)

\* the items whose result was yielded, in the order of the yields
YieldedItems == [k \in 1..Len(n_yielded) |-> n_tasks[n_yielded[k]]]

\* one result for each item of the generator, in the order of the items when
\* ordered
OnePerItem ==
    /\ Len(n_yielded) = Len(n_items)
    /\ { YieldedItems[k] : k \in 1..Len(n_yielded) } = 1..Len(n_items)
    /\ n_ordered => YieldedItems = [k \in 1..Len(n_items) |-> k]

ApplyReturned == n_main = "returned"

\* C39: mp_apply returns, with the loader thread ended, after it has yielded
\* one result for each item of the generator (in their order when ordered),
\* whatever the items are.
C39_OnePerItem ==
    /\ <>ApplyReturned
    /\ [](ApplyReturned => (OnePerItem /\ n_loader = "finished"))

NoneAmongItems == \E i \in 1..Len(n_items) : n_items[i].isnone

\* the same of the generators that have no None among their items
C39_WithoutNone ==
    /\ <>(NoneAmongItems \/ ApplyReturned)
    /\ [](~NoneAmongItems /\ ApplyReturned => (OnePerItem /\ n_loader = "finished"))

====
